---- MODULE Spec2Model ----
(***************************************************************************)
(* The tiered cache of vicanso/go-cache: Cache sequences Set / Get /       *)
(* Delete over an ordered list of Stores, writes an 8-byte big-endian      *)
(* expiry header in front of every payload and copies an entry found in a  *)
(* later store back into the first one.                                    *)
(*                                                                         *)
(* Sequences are 1-based: stores[1] is the code's c.stores[0] ("tier 0"),  *)
(* stores[2] is c.stores[1] ("tier 1").  Time is counted in nanoseconds.   *)
(***************************************************************************)
EXTENDS Integers, Sequences, FiniteSets, TLC

VARIABLES
    keyPrefix,   \* Cache.keyPrefix
    ttlList,     \* Cache.ttlList
    stores,      \* Cache.stores: each store a function from store key to bytes
    storeKinds,  \* the implementation of each store: "bigcache" or "redis"
    compressor,  \* Cache.compressor: [present, minCompressLength, failing]
    now,         \* the wall clock, time.Now()
    written,     \* history: the last Set of each key, when it returned nil
    last,        \* history: the last operation, its arguments, its store calls and its result
    redisCache,  \* RedisCache: [prefix, ttl]
    redis,       \* the keys of the redis server: key -> [value, expireAt]
    dones,       \* the redis keys whose Done function (LockWithDone) is not yet called
    noops,       \* the keys whose failed LockWithDone returned noop, not yet called
    granted,     \* history: the lock of each key that was last returned as taken
    tracked,     \* history: what RedisCache calls have made of each key
    procs        \* the Cache calls in flight: the position and locals of each

vars == <<keyPrefix, ttlList, stores, storeKinds, compressor, now, written, last,
          redisCache, redis, dones, noops, granted, tracked, procs>>

config == <<keyPrefix, ttlList, storeKinds, compressor>>

redisVars == <<redisCache, redis, dones, noops, granted, tracked>>

cacheVars == <<config, stores, written, procs>>

-----------------------------------------------------------------------------
(* Bounds *)

\* the clock shows MaxTime different times
MaxTime == 3

\* durations, in units of 50 ns; the clock starts at Dur(2) and steps by Dur(2)
Dur(n) == n * 50

\* caller keys; "" is the empty key
Keys == {"a"}

\* the keys locked through RedisCache
LockKeys == {"k"}
CallerKeys == Keys \cup {""}

\* the Name field of the cached test values
Names == {<<>>, <<1>>}

\* the kinds of value read by Get: a struct that goes through encoding/json
\* and a value with its own Marshal / Unmarshal
Kinds == {"struct", "custom"}

\* the values handed to Set; the "unsupported" one is a value encoding/json
\* refuses (a channel, a function)
Values == [kind : Kinds, name : Names] \cup {[kind |-> "unsupported", name |-> <<>>]}

\* the variadic ttl argument of Set / SetBytes: missing, one duration, or zero
TTLArgs == {<<>>, <<Dur(2)>>, <<0>>}

\* the ttl arguments tried with a key: the empty key is rejected before the
\* ttl is looked at, it is tried without one
TTLArgsFor(key) == IF key = "" THEN {<<>>} ELSE TTLArgs

\* the longest payload handed to the compressor on its own, and the largest
\* minimum length it is configured with
MaxPayloadLen == 3
MaxMinLength == 3

\* the payloads handed to Compressor.Encode
Payloads == UNION {[1..n -> {1, 2}] : n \in 0..MaxPayloadLen}

-----------------------------------------------------------------------------
(* Errors *)

NoErr == "nil"
ErrIsNil == "Data is nil"
ErrKeyIsNil == "Key is nil"
ErrPanic == "panic: index out of range"
ErrCodec == "codec error"
ErrMarshal == "json: unsupported type"
ErrEntryNotFound == "Entry not found"

\* the error a failing call on store i returns
StoreErr(i) == "store " \o ToString(i) \o " failed"

\* context.Canceled, as a store that honours the context of a call returns it
ErrCanceled == "context canceled"

-----------------------------------------------------------------------------
(* time.go *)

timestampByteSize == 8

Second == 1000000000

RECURSIVE PutUint(_, _)
\* the w low bytes of v, most significant first
PutUint(v, w) == IF w = 0 THEN <<>> ELSE Append(PutUint(v \div 256, w - 1), v % 256)

RECURSIVE Uint(_)
\* the big-endian number held by the bytes b
Uint(b) == IF b = <<>> THEN 0 ELSE Uint(SubSeq(b, 1, Len(b) - 1)) * 256 + b[Len(b)]

\* writes t into the first 8 bytes of data
writeTimeToBytes(t, data) ==
    PutUint(t, timestampByteSize) \o SubSeq(data, timestampByteSize + 1, Len(data))

getTimeFromBytes(buf) ==
    LET timestamp == Uint(SubSeq(buf, 1, timestampByteSize))
        sec == timestamp \div Second
        nsec == timestamp % Second
    IN sec * Second + nsec

-----------------------------------------------------------------------------
(* marshaler.go, unmarshaler.go *)

\* encoding/json of testData{Name}: the name between an opening and a closing part
JSONOpen == <<123>>
JSONClose == <<125>>

jsonMarshal(value) == JSONOpen \o value.name \o JSONClose

jsonValid(data) ==
    /\ Len(data) >= 2
    /\ SubSeq(data, 1, 1) = JSONOpen
    /\ SubSeq(data, Len(data), Len(data)) = JSONClose

marshalNoDispatch(value) ==
    CASE value.kind = "unsupported" -> [data |-> <<>>, err |-> ErrMarshal]
      [] OTHER -> [data |-> jsonMarshal(value), err |-> NoErr]

marshal(value) ==
    CASE value.kind = "custom" -> [data |-> value.name, err |-> NoErr]
      [] value.kind = "unsupported" -> [data |-> <<>>, err |-> ErrMarshal]
      [] OTHER -> [data |-> jsonMarshal(value), err |-> NoErr]

\* unmarshal into a fresh value of the given kind
unmarshal(data, kind) ==
    CASE kind = "custom" -> [value |-> [kind |-> kind, name |-> data], err |-> NoErr]
      [] OTHER ->
            IF jsonValid(data)
            THEN [value |-> [kind |-> kind, name |-> SubSeq(data, 2, Len(data) - 1)],
                  err |-> NoErr]
            ELSE [value |-> [kind |-> kind, name |-> <<>>], err |-> ErrCodec]

-----------------------------------------------------------------------------
(* compressor.go *)

CompressNone == 0
Compressed == 1

RECURSIVE codecEncode(_)
\* the compression function: run lengths, <<count, byte>> pairs
codecEncode(data) ==
    IF data = <<>> THEN <<>>
    ELSE LET rest == codecEncode(Tail(data))
         IN IF rest # <<>> /\ rest[2] = Head(data)
            THEN <<rest[1] + 1>> \o Tail(rest)
            ELSE <<1, Head(data)>> \o rest

RECURSIVE codecDecode(_)
codecDecode(data) ==
    IF data = <<>> THEN [data |-> <<>>, err |-> NoErr]
    ELSE IF Len(data) < 2 \/ data[1] < 1 THEN [data |-> <<>>, err |-> ErrCodec]
    ELSE LET rest == codecDecode(SubSeq(data, 3, Len(data)))
         IN IF rest.err # NoErr THEN rest
            ELSE [data |-> [i \in 1..data[1] |-> data[2]] \o rest.data, err |-> NoErr]

MatchAtLeast(c, size) == size >= c.minCompressLength

Match(c, size) == size > c.minCompressLength

\* compressor.Encode: the codec's encode function, called for a payload long
\* enough to be compressed, returns an error
encodeFailedIgnored(c, data) == FALSE

encodeFailed(c, data) == c.failing /\ Match(c, Len(data))

Encode(c, data) ==
    IF Match(c, Len(data))
    THEN <<Compressed>> \o codecEncode(data)
    ELSE <<CompressNone>> \o data

DecodeKeepsPayload(c, data) ==
    IF Len(data) = 0 THEN [data |-> <<>>, err |-> NoErr]
    ELSE [data |-> Tail(data), err |-> NoErr]

Decode(c, data) ==
    IF Len(data) = 0 THEN [data |-> <<>>, err |-> NoErr]
    ELSE IF data[1] # CompressNone THEN codecDecode(Tail(data))
    ELSE [data |-> Tail(data), err |-> NoErr]

-----------------------------------------------------------------------------
(* Store: the redis store and the bigcache store *)

\* one recorded call of a Store method
Call(op, tier, key, value, ttl, err) ==
    [op |-> op, tier |-> tier, key |-> key, value |-> value, ttl |-> ttl, err |-> err]

StoreGetNoErrIsNil(s, index, key, down) ==
    IF index \in down THEN [buf |-> <<>>, err |-> StoreErr(index)]
    ELSE IF key \in DOMAIN s THEN [buf |-> s[key], err |-> NoErr]
    ELSE [buf |-> <<>>, err |-> NoErr]

\* Store.Get on store s, the index-th store; down: the stores whose calls fail
StoreGet(s, index, key, down) ==
    IF index \in down THEN [buf |-> <<>>, err |-> StoreErr(index)]
    ELSE IF key \in DOMAIN s THEN [buf |-> s[key], err |-> NoErr]
    ELSE [buf |-> <<>>, err |-> ErrIsNil]

\* Store.Set: the store as it is after the call
StoreSet(s, index, key, value, down) ==
    IF index \in down THEN s
    ELSE [k \in DOMAIN s \cup {key} |-> IF k = key THEN value ELSE s[k]]

\* Store.Delete: the store as it is after the call
StoreDelete(s, index, key, down) ==
    IF index \in down THEN s
    ELSE [k \in DOMAIN s \ {key} |-> s[k]]

StoreResult(index, down) == IF index \in down THEN StoreErr(index) ELSE NoErr

\* the result of Store.Delete: redis DEL of an absent key is no error, bigcache
\* answers ErrEntryNotFound and bigCacheStore.Delete hands that on
StoreDeleteResult(s, index, key, down) ==
    IF index \in down THEN StoreErr(index)
    ELSE IF storeKinds[index] = "bigcache" /\ key \notin DOMAIN s THEN ErrEntryNotFound
    ELSE NoErr

-----------------------------------------------------------------------------
(* cache.go *)

firstIndex == 1

getKeyNoPrefix(key) ==
    IF key = "" THEN [key |-> "", err |-> ErrKeyIsNil]
    ELSE [key |-> key, err |-> NoErr]

getKeyNoCheck(key) == [key |-> keyPrefix \o key, err |-> NoErr]

getKey(key) ==
    IF key = "" THEN [key |-> "", err |-> ErrKeyIsNil]
    ELSE [key |-> keyPrefix \o key, err |-> NoErr]

getTTLFirst(index, ttl) ==
    IF Len(ttl) # 0 THEN ttl[1] ELSE ttlList[1]

getTTLNoOverride(index, ttl) ==
    IF Len(ttlList) >= index THEN ttlList[index] ELSE ttlList[1]

getTTLLast(index, ttl) ==
    IF Len(ttl) # 0 THEN ttl[1]
    ELSE IF Len(ttlList) >= index THEN ttlList[index]
    ELSE ttlList[Len(ttlList)]

getTTL(index, ttl) ==
    IF Len(ttl) # 0 THEN ttl[1]
    ELSE IF Len(ttlList) >= index THEN ttlList[index]
    ELSE ttlList[1]

\* getBytes: the last store's Get failed, the error is returned
isLastFailureAny(err, index, max) == err # NoErr

isLastFailure(err, index, max) == err # NoErr /\ index = max

\* getBytes: the store returned an entry with a header
found(buf) == Len(buf) >= timestampByteSize

\* getBytes: the entry's expiry is behind now
isExpiredNever(ttl) == FALSE

isExpiredLate(ttl) == ttl < 0 - Dur(2)

isExpired(ttl) == ttl < 0

\* getBytes: the entry found is copied into the first store
promotesNever(index) == FALSE

promotesAlways(index) == TRUE

promotesFirst(index) == index = firstIndex

promotes(index) == index # firstIndex

\* setBytes: a store's Set failed, the error is returned
setFailedIgnored(err) == FALSE

setFailed(err) == err # NoErr

\* Delete: the error kept after a store's Delete returned e
deleteErrFirst(e, err) == IF err # NoErr THEN err ELSE e

deleteErr(e, err) == IF e # NoErr THEN e ELSE err

\* getBytes: nothing but the header was found, or nothing at all
isNilNever(data) == FALSE

isNil(data) == Len(data) = 0

\* the loop of getBytes over c.stores from index on; t is now := time.Now().
\* The result records how the loop ended: "error" (the last store's Get
\* failed), "hit" (buf is the entry found), "miss" (the loop ran out) or
\* "panic" (the header was rewritten into the still nil data).
promotionErrSurfaced(err) == err

\* what getBytes makes of the error of the Store.Set that copies a hit into
\* the first store: it is dropped
promotionErr(err) == NoErr

RECURSIVE getLoop(_, _, _, _, _, _, _)
getLoop(index, key, t, sts, getDown, setDown, calls) ==
    IF index > Len(sts)
    THEN [end |-> "miss", err |-> NoErr, buf |-> <<>>, ttl |-> 0, index |-> 0,
          calls |-> calls, stores |-> sts]
    ELSE
    LET r == StoreGet(sts[index], index, key, getDown)
        c1 == Append(calls, Call("Get", index, key, r.buf, 0, r.err))
    IN  IF isLastFailure(r.err, index, Len(sts))
        THEN [end |-> "error", err |-> r.err, buf |-> <<>>, ttl |-> 0, index |-> index,
              calls |-> c1, stores |-> sts]
        ELSE IF found(r.buf)
        THEN LET expiredAt == getTimeFromBytes(r.buf)
                 ttl == expiredAt - t
             IN  IF isExpired(ttl)
                 THEN getLoop(index + 1, key, t, sts, getDown, setDown, c1)
                 ELSE IF promotes(index)
                 THEN LET newTTL == getTTL(firstIndex, <<ttl>>)
                      IN  IF newTTL < ttl
                          THEN [end |-> "panic", err |-> ErrPanic, buf |-> <<>>, ttl |-> 0,
                                index |-> index, calls |-> c1, stores |-> sts]
                          ELSE LET e == promotionErr(StoreResult(firstIndex, setDown))
                               IN
                               [end |-> IF e = NoErr THEN "hit" ELSE "error", err |-> e,
                                buf |-> r.buf, ttl |-> ttl,
                                index |-> index,
                                calls |-> Append(c1, Call("Set", firstIndex, key, r.buf, ttl,
                                                          StoreResult(firstIndex, setDown))),
                                stores |-> [sts EXCEPT ![firstIndex] =
                                    StoreSet(sts[firstIndex], firstIndex, key, r.buf, setDown)]]
                 ELSE [end |-> "hit", err |-> NoErr, buf |-> r.buf, ttl |-> ttl,
                       index |-> index, calls |-> c1, stores |-> sts]
        ELSE getLoop(index + 1, key, t, sts, getDown, setDown, c1)

\* Cache.getBytes: [data, ttl, err] as returned, with the store calls made,
\* the stores as they are left and the index of the store that served the hit
getBytes(key, t, getDown, setDown) ==
    LET k == getKey(key)
        none == [data |-> <<>>, ttl |-> 0, calls |-> <<>>, stores |-> stores, index |-> 0]
    IN  IF k.err # NoErr THEN none @@ [err |-> k.err]
        ELSE
        LET l == getLoop(1, k.key, t, stores, getDown, setDown, <<>>)
            out == [data |-> <<>>, ttl |-> 0, calls |-> l.calls, stores |-> l.stores,
                    index |-> l.index]
            data == IF l.end = "hit"
                    THEN SubSeq(l.buf, timestampByteSize + 1, Len(l.buf))
                    ELSE <<>>
        IN  IF l.end \in {"error", "panic"} THEN out @@ [err |-> l.err]
            ELSE IF isNil(data) THEN out @@ [err |-> ErrIsNil]
            ELSE IF compressor.present
            THEN LET d == Decode(compressor, data)
                 IN  IF d.err # NoErr THEN out @@ [err |-> d.err]
                     ELSE [out EXCEPT !.data = d.data, !.ttl = l.ttl] @@ [err |-> NoErr]
            ELSE [out EXCEPT !.data = data, !.ttl = l.ttl] @@ [err |-> NoErr]

\* the loop of setBytes over c.stores from index on; data is the shared buffer
RECURSIVE setLoop(_, _, _, _, _, _, _, _)
setLoop(index, key, data, ttls, t, sts, down, calls) ==
    IF index > Len(sts) THEN [err |-> NoErr, calls |-> calls, stores |-> sts]
    ELSE
    LET ttl == getTTL(index, ttls)
        buf == writeTimeToBytes(t + ttl, data)
        err == StoreResult(index, down)
        c1 == Append(calls, Call("Set", index, key, buf, ttl, err))
        s1 == [sts EXCEPT ![index] = StoreSet(sts[index], index, key, buf, down)]
    IN  IF setFailed(err) THEN [err |-> err, calls |-> c1, stores |-> s1]
        ELSE setLoop(index + 1, key, buf, ttls, t, s1, down, c1)

\* Cache.setBytes
setBytes(key, value, ttls, t, down) ==
    LET k == getKey(key)
    IN  IF k.err # NoErr THEN [err |-> k.err, calls |-> <<>>, stores |-> stores]
        ELSE IF compressor.present /\ encodeFailed(compressor, value)
        THEN [err |-> ErrCodec, calls |-> <<>>, stores |-> stores]
        ELSE
        LET v == IF compressor.present THEN Encode(compressor, value) ELSE value
            data == [i \in 1..timestampByteSize |-> 0] \o v
        IN  setLoop(1, k.key, data, ttls, t, stores, down, <<>>)

deleteLoopFirstOnly(index, key, sts, down, err, calls) ==
    [err |-> StoreDeleteResult(sts[index], index, key, down),
     calls |-> Append(calls, Call("Delete", index, key, <<>>, 0,
                                  StoreDeleteResult(sts[index], index, key, down))),
     stores |-> [sts EXCEPT ![index] = StoreDelete(sts[index], index, key, down)]]

\* the loop of Delete over c.stores from index on; err is the error so far
RECURSIVE deleteLoop(_, _, _, _, _, _)
deleteLoop(index, key, sts, down, err, calls) ==
    IF index > Len(sts) THEN [err |-> err, calls |-> calls, stores |-> sts]
    ELSE
    LET e == StoreDeleteResult(sts[index], index, key, down)
    IN  deleteLoop(index + 1, key,
                   [sts EXCEPT ![index] = StoreDelete(sts[index], index, key, down)],
                   down,
                   deleteErr(e, err),
                   Append(calls, Call("Delete", index, key, <<>>, 0, e)))

\* Close: a store's Close failed, the error is returned
closeFailedNever(err) == FALSE

closeFailed(err) == err # NoErr

\* the loop of Close over c.stores from index on
RECURSIVE closeLoop(_, _, _)
closeLoop(index, down, calls) ==
    IF index > Len(stores) THEN [err |-> NoErr, calls |-> calls, stores |-> stores]
    ELSE
    LET err == StoreResult(index, down)
        c1 == Append(calls, Call("Close", index, "", <<>>, 0, err))
    IN  IF closeFailed(err) THEN [err |-> err, calls |-> c1, stores |-> stores]
        ELSE closeLoop(index + 1, down, c1)

\* Cache.Delete
delete(key, down) ==
    LET k == getKey(key)
    IN  IF k.err # NoErr THEN [err |-> k.err, calls |-> <<>>, stores |-> stores]
        ELSE deleteLoop(1, k.key, stores, down, NoErr, <<>>)


-----------------------------------------------------------------------------
(* RedisCache; its durations and the clock are counted in milliseconds *)

defaultRedisTTL == 600000

\* expireAt of a key without expiry
NoExpiry == 0 - 1

\* the redis server holds key at time t
Live(r, key, t) ==
    /\ key \in DOMAIN r
    /\ r[key].expireAt = NoExpiry \/ r[key].expireAt > t

\* redis SET key value (PX ttl): the keys after the command
RedisSet(r, key, value, ttl, t) ==
    [k \in DOMAIN r \cup {key} |->
        IF k = key
        THEN [value |-> value, expireAt |-> IF ttl = 0 THEN NoExpiry ELSE t + ttl]
        ELSE r[k]]

\* redis SET key value (PX ttl) NX: whether the key was set, and the keys after
RedisSetNX(r, key, value, ttl, t) ==
    IF Live(r, key, t) THEN [ok |-> FALSE, redis |-> r]
    ELSE [ok |-> TRUE, redis |-> RedisSet(r, key, value, ttl, t)]

\* redis DEL key: the number of keys removed, and the keys after
RedisDel(r, key, t) ==
    [n |-> IF Live(r, key, t) THEN 1 ELSE 0,
     redis |-> [k \in DOMAIN r \ {key} |-> r[k]]]

\* a redis string holding the decimal integer n, and one holding other bytes
IntVal(n) == [isInt |-> TRUE, n |-> n, data |-> <<>>]
BytesVal(data) == [isInt |-> FALSE, n |-> 0, data |-> data]

\* the argument the client sends for a Go bool
BoolArg(b) == IntVal(IF b THEN 1 ELSE 0)

redisNil == "redis: nil"
ErrNotInteger == "ERR value is not an integer or out of range"

\* redis GET key
RedisGet(r, key, t) ==
    IF Live(r, key, t) THEN [value |-> r[key].value, err |-> NoErr]
    ELSE [value |-> BytesVal(<<>>), err |-> redisNil]

RedisIncrByLost(r, key, v, t) ==
    [n |-> v, err |-> NoErr, redis |-> RedisSet(r, key, IntVal(v), 0, t)]

\* redis INCRBY key v: the new number, and the keys after; the expiry of a
\* key that exists is kept
RedisIncrBy(r, key, v, t) ==
    IF ~Live(r, key, t)
    THEN [n |-> v, err |-> NoErr, redis |-> RedisSet(r, key, IntVal(v), 0, t)]
    ELSE IF ~r[key].value.isInt
    THEN [n |-> 0, err |-> ErrNotInteger, redis |-> r]
    ELSE [n |-> r[key].value.n + v, err |-> NoErr,
          redis |-> [r EXCEPT ![key].value = IntVal(r[key].value.n + v)]]

\* RedisCache.getTTL
RedisCache_getTTL(ttl) ==
    LET value == IF Len(ttl) # 0 THEN ttl[1] ELSE redisCache.ttl
    IN  IF value # 0 THEN value ELSE defaultRedisTTL

\* RedisCache.getKey
RedisCache_getKey(key) ==
    IF key = "" THEN [key |-> "", err |-> ErrKeyIsNil]
    ELSE [key |-> redisCache.prefix \o key, err |-> NoErr]

delKeeps(key, t) == [n |-> 0, redis |-> redis]

\* RedisCache.del
del(key, t) == RedisDel(redis, key, t)

lockOverwrites(key, ttl, t) ==
    [ok |-> TRUE, redis |-> RedisSet(redis, key, BoolArg(TRUE), ttl, t)]

\* RedisCache.lock
lock(key, ttl, t) == RedisSetNX(redis, key, BoolArg(TRUE), ttl, t)

-----------------------------------------------------------------------------
(* The state machine *)

Tiers == 1..Len(stores)

NoValue == [kind |-> "none", name |-> <<>>]

\* what store i holds under the store key of caller key `key`
Entry(sts, i, key) ==
    IF keyPrefix \o key \in DOMAIN sts[i]
    THEN [present |-> TRUE, data |-> sts[i][keyPrefix \o key]]
    ELSE [present |-> FALSE, data |-> <<>>]

\* the record of one Cache operation
Op(op, key, value, ttls, r, out, ttl) ==
    [op |-> op, key |-> key, value |-> value, ttls |-> ttls, at |-> now,
     pre |-> [i \in Tiers |-> Entry(stores, i, key)],
     err |-> r.err, out |-> out, ttl |-> ttl, calls |-> r.calls]

\* no Cache operation has just returned
NoOp == [op |-> "none", key |-> "", value |-> NoValue, ttls |-> <<>>, at |-> 0,
         pre |-> <<>>, err |-> NoErr, out |-> NoValue, ttl |-> 0, calls |-> <<>>]

\* the callers: one reads (Get), one writes (Set, Delete)
Callers == {"reader", "writer"}

\* a caller with no call in flight.  cancelled: the context of the call is
\* cancelled; refused: a store call of it returned the cancellation error;
\* promoted: whether Store.Set on the first store was invoked, and with the
\* context in which state
Idle ==
    [op |-> "none", pc |-> "idle", index |-> 0, at |-> 0, buf |-> <<>>, ttl |-> 0,
     value |-> NoValue, data |-> <<>>, err |-> NoErr,
     cancelled |-> FALSE, refused |-> FALSE, promoted |-> "no"]

NoProcs == [p \in Callers |-> Idle]

\* written[k].ok: the last Set of k returned nil and no Delete of k followed;
\* intact: no store has dropped the entry on its own since; gone: the last
\* Delete of k returned nil and no Set of k reached a store since
NotWritten ==
    [ok |-> FALSE, value |-> NoValue, at |-> 0, ttls |-> <<>>, intact |-> FALSE,
     gone |-> FALSE]

\* `written` after a Set of `value` under `key` that ended with r: a Set that
\* failed before it reached a store leaves the entries as they were
AfterSet(key, value, ttls, r) ==
    IF key \notin Keys THEN written
    ELSE [written EXCEPT ![key] =
            IF r.err = NoErr
            THEN [ok |-> TRUE, value |-> value, at |-> now, ttls |-> ttls, intact |-> TRUE,
                  gone |-> FALSE]
            ELSE IF r.calls = <<>> THEN written[key]
            ELSE NotWritten]

\* the key was never written, or a Del, a done function or a GetAndDel removed
\* it and nothing wrote it since; taken: a GetAndDel returned its value
Untracked == [kind |-> "absent", sum |-> 0, until |-> 0, taken |-> FALSE]

\* no lock of the key is taken; released: its holder's done function ended it;
\* done: the call that took the lock returned a done function for it
NotGranted == [held |-> FALSE, until |-> 0, released |-> FALSE, done |-> FALSE]

\* RedisCache is not used
RedisUnused ==
    /\ redisCache = [prefix |-> "", ttl |-> 0]
    /\ redis = <<>>
    /\ dones = {}
    /\ noops = {}
    /\ granted = [k \in LockKeys |-> NotGranted]
    /\ tracked = [k \in LockKeys |-> Untracked]

Init ==
    /\ keyPrefix \in {"", "p:"}
    /\ stores \in {<< <<>> >>, << <<>>, <<>> >>}
    /\ ttlList \in {<<Dur(1)>>, <<Dur(1), Dur(3)>>}
    /\ Len(ttlList) <= Len(stores)
    /\ storeKinds \in {<<"bigcache">>, <<"redis">>, <<"bigcache", "redis">>}
    /\ Len(storeKinds) = Len(stores)
    /\ compressor \in {[present |-> FALSE, minCompressLength |-> 0, failing |-> FALSE],
                       [present |-> TRUE, minCompressLength |-> 1, failing |-> FALSE],
                       [present |-> TRUE, minCompressLength |-> 1, failing |-> TRUE]}
    /\ now = Dur(2)
    /\ written = [k \in Keys |-> NotWritten]
    /\ last = NoOp
    /\ procs = NoProcs
    /\ RedisUnused

\* the caller is between two Cache operations and calls one more
Called == last.op = "none"

\* Cache.Set
Set(key, value, ttls, down) ==
    LET entry == marshal(value)
        r == IF entry.err # NoErr
             THEN [err |-> entry.err, calls |-> <<>>, stores |-> stores]
             ELSE setBytes(key, entry.data, ttls, now, down)
    IN  /\ Called
        /\ stores' = r.stores
        /\ written' = AfterSet(key, value, ttls, r)
        /\ last' = Op("Set", key, value, ttls, r, NoValue, 0)
        /\ UNCHANGED <<redisVars, procs, config, now>>

\* Cache.SetBytes
SetBytes(key, data, ttls, down) ==
    LET r == setBytes(key, data, ttls, now, down)
        value == [kind |-> "bytes", name |-> data]
    IN  /\ Called
        /\ stores' = r.stores
        /\ written' = AfterSet(key, value, ttls, r)
        /\ last' = Op("SetBytes", key, value, ttls, r, NoValue, 0)
        /\ UNCHANGED <<redisVars, procs, config, now>>

\* Cache.Get (andTTL = FALSE) and Cache.GetAndTTL (andTTL = TRUE)
Get(key, kind, andTTL, getDown, setDown) ==
    LET r == getBytes(key, now, getDown, setDown)
        u == unmarshal(r.data, kind)
        res == IF r.err # NoErr THEN r ELSE [r EXCEPT !.err = u.err]
    IN  /\ Called
        /\ stores' = r.stores
        /\ last' = Op(IF andTTL THEN "GetAndTTL" ELSE "Get", key,
                      [kind |-> kind, name |-> <<>>], <<>>, res,
                      IF res.err = NoErr THEN u.value ELSE NoValue,
                      IF res.err = NoErr /\ andTTL THEN r.ttl ELSE 0)
        /\ UNCHANGED <<redisVars, procs, config, now, written>>

\* Cache.GetBytes (andTTL = FALSE) and Cache.GetBytesAndTTL (andTTL = TRUE)
GetBytes(key, andTTL, getDown, setDown) ==
    LET r == getBytes(key, now, getDown, setDown)
    IN  /\ Called
        /\ stores' = r.stores
        /\ last' = Op(IF andTTL THEN "GetBytesAndTTL" ELSE "GetBytes", key,
                      [kind |-> "bytes", name |-> <<>>], <<>>, r,
                      IF r.err = NoErr THEN [kind |-> "bytes", name |-> r.data] ELSE NoValue,
                      IF andTTL THEN r.ttl ELSE 0)
        /\ UNCHANGED <<redisVars, procs, config, now, written>>

\* Cache.Delete
Delete(key, down) ==
    LET r == delete(key, down)
    IN  /\ Called
        /\ stores' = r.stores
        /\ written' = IF key \in Keys
                      THEN [written EXCEPT ![key] = [NotWritten EXCEPT !.gone = (r.err = NoErr)]]
                      ELSE written
        /\ last' = Op("Delete", key, NoValue, <<>>, r, NoValue, 0)
        /\ UNCHANGED <<redisVars, procs, config, now>>

\* Cache.Close; the cache is not used after it
Close(down) ==
    LET r == closeLoop(1, down, <<>>)
    IN  /\ Called
        /\ last' = Op("Close", "", NoValue, <<>>, r, NoValue, 0)
        /\ UNCHANGED <<redisVars, procs, config, stores, now, written>>

\* a store drops an entry on its own: bigcache evicts for space or by its
\* life window, redis expires the key, or the entry is deleted directly
Evict(i, key) ==
    /\ last.op = "none"
    /\ keyPrefix \o key \in DOMAIN stores[i]
    /\ stores' = [stores EXCEPT ![i] = StoreDelete(stores[i], i, keyPrefix \o key, {})]
    /\ written' = [written EXCEPT ![key].intact = FALSE]
    /\ UNCHANGED <<redisVars, procs, config, now, last>>

\* time passes
Tick ==
    /\ last.op = "none"
    /\ now < Dur(2 * MaxTime)
    /\ now' = now + Dur(2)
    /\ UNCHANGED <<redisVars, procs, config, stores, written, last>>

\* the caller takes the result of the operation that returned
Return ==
    /\ last.op \notin {"none", "Close"}
    /\ last' = NoOp
    /\ UNCHANGED <<redisVars, procs, config, stores, now, written>>

\* the Cache operations a caller may call: F the sets of stores whose calls
\* fail during one operation, V the values set, B the byte payloads set,
\* K the kinds of value read into
Ops(F, V, B, K) ==
    \/ \E key \in CallerKeys, value \in V, down \in F :
          \E ttls \in TTLArgsFor(key) : Set(key, value, ttls, down)
    \/ \E key \in CallerKeys, data \in B, down \in F :
          \E ttls \in TTLArgsFor(key) : SetBytes(key, data, ttls, down)
    \/ \E key \in CallerKeys, kind \in K, andTTL \in BOOLEAN, getDown \in F, setDown \in F :
          Get(key, kind, andTTL, getDown, setDown)
    \/ \E key \in CallerKeys, andTTL \in BOOLEAN, getDown \in F, setDown \in F :
          GetBytes(key, andTTL, getDown, setDown)
    \/ \E key \in CallerKeys, down \in F : Delete(key, down)
    \/ \E down \in F : Close(down)

Env ==
    \/ \E i \in Tiers, key \in Keys : Evict(i, key)
    \/ Tick
    \/ Return

\* every store call succeeds
Next == Ops({{}}, Values, Names, Kinds) \/ Env

Spec == Init /\ [][Next]_vars

\* any store call may fail; the values are the custom ones, the cache has a
\* key prefix and no compressor
FaultyValues == {v \in Values : v.kind = "custom"}

InitFaulty ==
    /\ Init
    /\ keyPrefix # ""
    /\ ~compressor.present

NextFaulty == Ops(SUBSET Tiers, FaultyValues, {<<1>>}, {"custom"}) \/ Env

SpecFaulty == InitFaulty /\ [][NextFaulty]_vars

-----------------------------------------------------------------------------
(* The compressor on its own *)

\* the record of one Compressor call: data the payload, encoded the tagged
\* bytes, decoded what Decode made of them
CodecOp(op, data, encoded, r) ==
    [op |-> op, data |-> data, encoded |-> encoded, decoded |-> r.data, err |-> r.err]

InitCodec ==
    /\ keyPrefix = ""
    /\ stores = << <<>> >>
    /\ storeKinds = <<"bigcache">>
    /\ ttlList = <<Dur(1)>>
    /\ compressor \in {[present |-> TRUE, minCompressLength |-> m, failing |-> FALSE] : m \in 0..MaxMinLength}
    /\ now = Dur(2)
    /\ written = [k \in Keys |-> NotWritten]
    /\ last = NoOp
    /\ procs = NoProcs
    /\ RedisUnused

\* Compressor.Encode
EncodeCall(data) ==
    /\ Called
    /\ last' = CodecOp("Encode", data, Encode(compressor, data), [data |-> <<>>, err |-> NoErr])
    /\ UNCHANGED <<redisVars, procs, config, stores, now, written>>

\* Compressor.Decode of what Encode returned
DecodeCall ==
    /\ last.op = "Encode"
    /\ last' = CodecOp("Decode", last.data, last.encoded, Decode(compressor, last.encoded))
    /\ UNCHANGED <<redisVars, procs, config, stores, now, written>>

\* bytes handed to Compressor.Decode that no Encode made
RawInputs == {<<>>, <<CompressNone>>, <<Compressed>>, <<CompressNone, 1>>, <<Compressed, 1>>}

\* Compressor.Decode of other bytes
DecodeInput(encoded) ==
    /\ Called
    /\ last' = CodecOp("DecodeInput", <<>>, encoded, Decode(compressor, encoded))
    /\ UNCHANGED <<redisVars, procs, config, stores, now, written>>

NextCodec ==
    \/ \E data \in Payloads : EncodeCall(data)
    \/ DecodeCall
    \/ \E encoded \in RawInputs : DecodeInput(encoded)
    \/ Return

SpecCodec == InitCodec /\ [][NextCodec]_vars

-----------------------------------------------------------------------------
(* A store on its own: the bigcache store and the redis store *)

InitStore ==
    /\ keyPrefix = ""
    /\ stores = << <<>> >>
    /\ storeKinds \in {<<"bigcache">>, <<"redis">>}
    /\ ttlList = <<Dur(1)>>
    /\ compressor = [present |-> FALSE, minCompressLength |-> 0, failing |-> FALSE]
    /\ now = Dur(2)
    /\ written = [k \in Keys |-> NotWritten]
    /\ last = NoOp
    /\ procs = NoProcs
    /\ RedisUnused

\* Store.Set called on the store directly
StoreSetCall(key, value, ttl) ==
    LET r == [err |-> StoreResult(1, {}),
              calls |-> <<Call("Set", 1, key, value, ttl, StoreResult(1, {}))>>]
    IN  /\ Called
        /\ stores' = [stores EXCEPT ![1] = StoreSet(stores[1], 1, key, value, {})]
        /\ written' = AfterSet(key, [kind |-> "bytes", name |-> value], <<ttl>>, r)
        /\ last' = Op("StoreSet", key, [kind |-> "bytes", name |-> value], <<ttl>>, r,
                      NoValue, 0)
        /\ UNCHANGED <<redisVars, procs, config, now>>

\* Store.Get called on the store directly
StoreGetCall(key) ==
    LET g == StoreGet(stores[1], 1, key, {})
        r == [err |-> g.err, calls |-> <<Call("Get", 1, key, g.buf, 0, g.err)>>]
    IN  /\ Called
        /\ last' = Op("StoreGet", key, NoValue, <<>>, r, [kind |-> "bytes", name |-> g.buf], 0)
        /\ UNCHANGED <<redisVars, procs, config, stores, now, written>>

\* Store.Delete called on the store directly
StoreDeleteCall(key) ==
    LET e == StoreDeleteResult(stores[1], 1, key, {})
        r == [err |-> e, calls |-> <<Call("Delete", 1, key, <<>>, 0, e)>>]
    IN  /\ Called
        /\ stores' = [stores EXCEPT ![1] = StoreDelete(stores[1], 1, key, {})]
        /\ written' = [written EXCEPT ![key] = [NotWritten EXCEPT !.gone = (e = NoErr)]]
        /\ last' = Op("StoreDelete", key, NoValue, <<>>, r, NoValue, 0)
        /\ UNCHANGED <<redisVars, procs, config, now>>

NextStore ==
    \/ \E key \in Keys, value \in Payloads, ttl \in {Dur(1), Dur(2)} :
          StoreSetCall(key, value, ttl)
    \/ \E key \in Keys : StoreGetCall(key)
    \/ \E key \in Keys : StoreDeleteCall(key)
    \/ \E key \in Keys : Evict(1, key)
    \/ Return

SpecStore == InitStore /\ [][NextStore]_vars

-----------------------------------------------------------------------------
(* The cache with TTLs longer than a clock step, on stores another writer shares *)

TierValues == {[kind |-> "struct", name |-> <<1>>]}

\* an entry whose 8-byte header is all zero, as another writer of the store
\* may leave it
ZeroHeaderEntry ==
    [i \in 1..timestampByteSize |-> 0] \o jsonMarshal([kind |-> "struct", name |-> <<2>>])

InitTiers ==
    /\ keyPrefix = ""
    /\ stores \in {<< <<>> >>, << <<>>, <<>> >>}
    /\ ttlList \in {<<Dur(3)>>, <<Dur(3), Dur(5)>>}
    /\ Len(ttlList) <= Len(stores)
    /\ storeKinds \in {<<"redis">>, <<"bigcache", "redis">>}
    /\ Len(storeKinds) = Len(stores)
    /\ compressor = [present |-> FALSE, minCompressLength |-> 0, failing |-> FALSE]
    /\ now = Dur(2)
    /\ written = [k \in Keys |-> NotWritten]
    /\ last = NoOp
    /\ procs = NoProcs
    /\ RedisUnused

\* another writer of store i sets the key to data, with Store.Set
Foreign(i, key, data) ==
    /\ last.op = "none"
    /\ Entry(stores, i, key).data # data
    /\ stores' = [stores EXCEPT ![i] = StoreSet(stores[i], i, keyPrefix \o key, data, {})]
    /\ written' = [written EXCEPT ![key].intact = FALSE]
    /\ UNCHANGED <<redisVars, procs, config, now, last>>

NextTiers ==
    \/ Ops({{}}, TierValues, {<<1>>}, {"struct"})
    \/ Env
    \/ \E i \in Tiers, key \in Keys : Foreign(i, key, ZeroHeaderEntry)

SpecTiers == InitTiers /\ [][NextTiers]_vars

-----------------------------------------------------------------------------
(* RedisCache: locks *)

\* the variadic ttl argument of Lock / LockWithDone
LockTTLArgs == {<<>>, <<Dur(2)>>, <<0>>}

InitLock ==
    /\ keyPrefix = ""
    /\ stores = << <<>> >>
    /\ storeKinds = <<"redis">>
    /\ ttlList = <<Dur(1)>>
    /\ compressor = [present |-> FALSE, minCompressLength |-> 0, failing |-> FALSE]
    /\ now = Dur(2)
    /\ written = [k \in Keys |-> NotWritten]
    /\ last = NoOp
    /\ procs = NoProcs
    /\ redisCache \in [prefix : {"", "prefix:"}, ttl : {0, Dur(4)}]
    /\ redis = <<>>
    /\ dones = {}
    /\ noops = {}
    /\ granted = [k \in LockKeys |-> NotGranted]
    /\ tracked = [k \in LockKeys |-> Untracked]

\* the record of one lock call: held tells whether a lock of the key returned
\* as taken was still running when the call was made
LockOp(op, key, ttls, ok, err) ==
    [op |-> op, key |-> key, ttls |-> ttls, at |-> now, ok |-> ok, err |-> err,
     held |-> key \in LockKeys /\ granted[key].held /\ now < granted[key].until,
     pre |-> IF key \in LockKeys THEN granted[key] ELSE NotGranted,
     before |-> redis]

\* `granted` after a lock call on key with ttl d that returned ok; done: the
\* call was a LockWithDone
AfterLock(key, d, ok, done) ==
    IF ok THEN [granted EXCEPT ![key] =
                   [held |-> TRUE, until |-> now + d, released |-> FALSE, done |-> done]]
    ELSE granted

\* `tracked` after a call that left key holding something other than a counter
\* (wrote is whether it wrote), and after a call that removed key
Other == [kind |-> "other", sum |-> 0, until |-> 0, taken |-> FALSE]
TrackWrite(key, wrote) == IF wrote THEN [tracked EXCEPT ![key] = Other] ELSE tracked
TrackRemove(key) == [tracked EXCEPT ![key] = Untracked]

\* RedisCache.Lock
Lock(key, ttls) ==
    LET k == RedisCache_getKey(key)
        d == RedisCache_getTTL(ttls)
        r == lock(k.key, d, now)
    IN  /\ Called
        /\ IF k.err # NoErr
           THEN /\ last' = LockOp("Lock", key, ttls, FALSE, k.err)
                /\ UNCHANGED <<redis, granted, tracked>>
           ELSE /\ last' = LockOp("Lock", key, ttls, r.ok, NoErr)
                /\ redis' = r.redis
                /\ granted' = AfterLock(key, d, r.ok, FALSE)
                /\ tracked' = TrackWrite(key, r.ok)
        /\ UNCHANGED <<cacheVars, now, redisCache, dones, noops>>

\* RedisCache.LockWithDone
LockWithDone(key, ttls) ==
    LET k == RedisCache_getKey(key)
        d == RedisCache_getTTL(ttls)
        r == lock(k.key, d, now)
    IN  /\ Called
        /\ IF k.err # NoErr
           THEN /\ last' = LockOp("LockWithDone", key, ttls, FALSE, k.err)
                /\ noops' = noops \cup {key}
                /\ UNCHANGED <<redis, granted, dones, tracked>>
           ELSE /\ last' = LockOp("LockWithDone", key, ttls, r.ok, NoErr)
                /\ redis' = r.redis
                /\ granted' = AfterLock(key, d, r.ok, TRUE)
                /\ tracked' = TrackWrite(key, r.ok)
                /\ dones' = IF r.ok THEN dones \cup {key} ELSE dones
                /\ noops' = IF r.ok THEN noops ELSE noops \cup {key}
        /\ UNCHANGED <<cacheVars, now, redisCache>>

\* the done function LockWithDone returned for key is called
Done(key) ==
    /\ Called
    /\ key \in dones
    /\ redis' = del(redisCache.prefix \o key, now).redis
    /\ dones' = dones \ {key}
    /\ granted' = [granted EXCEPT ![key] = [NotGranted EXCEPT !.released = TRUE]]
    /\ tracked' = TrackRemove(key)
    /\ last' = LockOp("Done", key, <<>>, TRUE, NoErr)
    /\ UNCHANGED <<cacheVars, now, redisCache, noops>>

\* the noop function a failed LockWithDone returned for key is called
Noop(key) ==
    /\ Called
    /\ key \in noops
    /\ noops' = noops \ {key}
    /\ last' = LockOp("Noop", key, <<>>, TRUE, NoErr)
    /\ UNCHANGED <<cacheVars, now, redisCache, redis, dones, granted, tracked>>

\* RedisCache.Del
Del(key) ==
    LET k == RedisCache_getKey(key)
    IN  /\ Called
        /\ IF k.err # NoErr
           THEN /\ last' = LockOp("Del", key, <<>>, FALSE, k.err)
                /\ UNCHANGED <<redis, granted, tracked>>
           ELSE /\ last' = LockOp("Del", key, <<>>, del(k.key, now).n = 1, NoErr)
                /\ redis' = del(k.key, now).redis
                /\ granted' = [granted EXCEPT ![key] = NotGranted]
                /\ tracked' = TrackRemove(key)
        /\ UNCHANGED <<cacheVars, now, redisCache, dones, noops>>

NextLock ==
    \/ \E key \in LockKeys \cup {""}, ttls \in LockTTLArgs : Lock(key, ttls)
    \/ \E key \in LockKeys \cup {""}, ttls \in LockTTLArgs : LockWithDone(key, ttls)
    \/ \E key \in LockKeys : Done(key)
    \/ \E key \in LockKeys \cup {""} : Noop(key)
    \/ \E key \in LockKeys \cup {""} : Del(key)
    \/ Tick
    \/ Return

SpecLock == InitLock /\ [][NextLock]_vars

-----------------------------------------------------------------------------
(* RedisCache: counters and values *)

MaxCount == 3

\* the increments passed to IncWith
Incs == {1, 2, 0 - 2}

\* the values passed to RedisCache.Set, as the client sends them
SetArgs == {IntVal(2), BytesVal(<<1>>)}

\* the values passed to SetStruct and SetStructWithTTL
Structs == {[kind |-> "struct", name |-> <<1>>], [kind |-> "unsupported", name |-> <<>>]}

\* the ttl passed to SetStructWithTTL
StructTTLs == {Dur(2), 0}

Abs(n) == IF n < 0 THEN 0 - n ELSE n

\* the number INCRBY adds to
CountOf(r, key, t) == IF Live(r, key, t) /\ r[key].value.isInt THEN r[key].value.n ELSE 0

InitRedis == InitLock

\* the record of one RedisCache call on a value: before and pre are the redis
\* keys and the history of the key when the call was made
RedisOp(op, key, value, ttls, out, n, err) ==
    [op |-> op, key |-> key, value |-> value, ttls |-> ttls, at |-> now,
     out |-> out, n |-> n, err |-> err, before |-> redis,
     pre |-> IF key \in LockKeys THEN tracked[key] ELSE Untracked]

NoBytes == BytesVal(<<>>)

incWithTxResetsTTL(r, key, value, d, t) ==
    LET inc == RedisIncrBy(r, key, value, t)
    IN  [n |-> inc.n, err |-> inc.err,
         redis |-> IF inc.err = NoErr
                   THEN RedisSet(inc.redis, key, inc.redis[key].value, d, t)
                   ELSE inc.redis]

\* the transaction of IncWith: SETNX key 0 with the ttl, then INCRBY
incWithTx(r, key, value, d, t) ==
    RedisIncrBy(RedisSetNX(r, key, IntVal(0), d, t).redis, key, value, t)

\* `tracked` after an IncWith of key by value with ttl d that returned nil
AfterInc(key, value, d) ==
    LET pre == tracked[key]
    IN  IF pre.kind = "other" THEN tracked
        ELSE IF pre.kind = "counter" /\ now < pre.until
        THEN [tracked EXCEPT ![key].sum = pre.sum + value]
        ELSE [tracked EXCEPT ![key] =
                 [kind |-> "counter", sum |-> value, until |-> now + d,
                  taken |-> FALSE]]

\* RedisCache.IncWith
IncWith(key, value, ttls) ==
    LET k == RedisCache_getKey(key)
        d == RedisCache_getTTL(ttls)
        r == incWithTx(redis, k.key, value, d, now)
    IN  /\ Called
        /\ IF k.err # NoErr
           THEN /\ last' = RedisOp("IncWith", key, value, ttls, NoBytes, 0, k.err)
                /\ UNCHANGED <<redis, tracked>>
           ELSE /\ Abs(CountOf(redis, k.key, now) + value) <= MaxCount
                /\ redis' = r.redis
                /\ IF r.err # NoErr
                   THEN /\ last' = RedisOp("IncWith", key, value, ttls, NoBytes, 0, r.err)
                        /\ UNCHANGED tracked
                   ELSE /\ last' = RedisOp("IncWith", key, value, ttls, NoBytes, r.n, NoErr)
                        /\ tracked' = AfterInc(key, value, d)
        /\ UNCHANGED <<cacheVars, now, redisCache, dones, noops, granted>>

\* RedisCache.getBytes
RedisCache_getBytes(key) == RedisGet(redis, key, now)

\* RedisCache.Get
RedisCache_Get(key) ==
    LET k == RedisCache_getKey(key)
        r == RedisCache_getBytes(k.key)
    IN  /\ Called
        /\ last' = IF k.err # NoErr
                   THEN RedisOp("Get", key, NoBytes, <<>>, NoBytes, 0, k.err)
                   ELSE RedisOp("Get", key, NoBytes, <<>>, r.value, 0, r.err)
        /\ UNCHANGED <<cacheVars, now, redisVars>>

getAndDelTxKeeps(r, key, t) ==
    [value |-> RedisGet(r, key, t).value, err |-> RedisGet(r, key, t).err, redis |-> r]

\* the transaction of GetAndDel: GET key, then DEL key; Exec returns the first
\* error of its commands
getAndDelTx(r, key, t) ==
    [value |-> RedisGet(r, key, t).value, err |-> RedisGet(r, key, t).err,
     redis |-> RedisDel(r, key, t).redis]

\* RedisCache.GetAndDel
GetAndDel(key) ==
    LET k == RedisCache_getKey(key)
        r == getAndDelTx(redis, k.key, now)
    IN  /\ Called
        /\ IF k.err # NoErr
           THEN /\ last' = RedisOp("GetAndDel", key, NoBytes, <<>>, NoBytes, 0, k.err)
                /\ UNCHANGED <<redis, tracked, granted>>
           ELSE /\ last' = RedisOp("GetAndDel", key, NoBytes, <<>>,
                                   IF r.err # NoErr THEN NoBytes ELSE r.value, 0, r.err)
                /\ redis' = r.redis
                /\ tracked' = [tracked EXCEPT ![key] =
                                  [Untracked EXCEPT !.taken =
                                      (r.err = NoErr) \/ tracked[key].taken]]
                /\ granted' = [granted EXCEPT ![key] = NotGranted]
        /\ UNCHANGED <<cacheVars, now, redisCache, dones, noops>>

\* RedisCache.setBytes and RedisCache.set
RedisCache_setBytes(key, value, ttl) == RedisSet(redis, key, value, ttl, now)

\* one of the RedisCache calls that set a key has run: the key err, the error
\* before the write, the value and the ttl written
Write(op, key, arg, ttls, kerr, err, value, ttl) ==
    /\ Called
    /\ IF kerr # NoErr \/ err # NoErr
       THEN /\ last' = RedisOp(op, key, arg, ttls, NoBytes, 0,
                               IF kerr # NoErr THEN kerr ELSE err)
            /\ UNCHANGED <<redis, tracked, granted>>
       ELSE /\ last' = RedisOp(op, key, arg, ttls, value, 0, NoErr)
            /\ redis' = RedisCache_setBytes(redisCache.prefix \o key, value, ttl)
            /\ tracked' = TrackWrite(key, TRUE)
            /\ granted' = [granted EXCEPT ![key] = NotGranted]
    /\ UNCHANGED <<cacheVars, now, redisCache, dones, noops>>

\* RedisCache.Set
RedisCache_Set(key, value, ttls) ==
    Write("Set", key, value, ttls, RedisCache_getKey(key).err, NoErr,
          value, RedisCache_getTTL(ttls))

\* RedisCache.SetStruct
SetStruct(key, value, ttls) ==
    Write("SetStruct", key, value, ttls, RedisCache_getKey(key).err,
          marshal(value).err, BytesVal(marshal(value).data), RedisCache_getTTL(ttls))

\* RedisCache.SetStructWithTTL
SetStructWithTTL(key, value, ttl) ==
    LET buf == marshal(value).data
        data == [i \in 1..(Len(buf) + timestampByteSize) |-> 0]
    IN  Write("SetStructWithTTL", key, value, <<ttl>>, RedisCache_getKey(key).err,
              marshal(value).err,
              BytesVal(SubSeq(writeTimeToBytes(now + ttl, data), 1, timestampByteSize)
                       \o buf),
              ttl)

RedisKeys == LockKeys \cup {""}

NextRedis ==
    \/ \E key \in RedisKeys, v \in Incs, ttls \in LockTTLArgs : IncWith(key, v, ttls)
    \/ \E key \in RedisKeys : RedisCache_Get(key)
    \/ \E key \in RedisKeys : GetAndDel(key)
    \/ \E key \in RedisKeys, v \in SetArgs, ttls \in LockTTLArgs :
          RedisCache_Set(key, v, ttls)
    \/ \E key \in RedisKeys, v \in Structs, ttls \in LockTTLArgs : SetStruct(key, v, ttls)
    \/ \E key \in RedisKeys, v \in Structs, ttl \in StructTTLs :
          SetStructWithTTL(key, v, ttl)
    \/ \E key \in RedisKeys, ttls \in LockTTLArgs : Lock(key, ttls)
    \/ \E key \in RedisKeys : Del(key)
    \/ Tick
    \/ Return

SpecRedis == InitRedis /\ [][NextRedis]_vars

-----------------------------------------------------------------------------
(* Cache.getTTL as a function of the TTL list, the tier index and the TTL argument *)

TTLLists == {<<a>> : a \in {Dur(1), Dur(3), Dur(5)}}
            \cup {<<a, b>> : a, b \in {Dur(1), Dur(3), Dur(5)}}

InitTTL ==
    /\ keyPrefix = ""
    /\ stores = << <<>> >>
    /\ storeKinds = <<"bigcache">>
    /\ ttlList \in TTLLists
    /\ compressor = [present |-> FALSE, minCompressLength |-> 0, failing |-> FALSE]
    /\ now = Dur(2)
    /\ written = [k \in Keys |-> NotWritten]
    /\ last = NoOp
    /\ procs = NoProcs
    /\ RedisUnused

\* c.getTTL(index, ttl...), index counted from 1
GetTTLCall(index, ttls) ==
    /\ Called
    /\ last' = [op |-> "getTTL", index |-> index, ttls |-> ttls, ttl |-> getTTL(index, ttls)]
    /\ UNCHANGED <<redisVars, procs, config, stores, now, written>>

NextTTL ==
    \/ \E index \in 1..3, ttls \in TTLArgs : GetTTLCall(index, ttls)
    \/ Return

SpecTTL == InitTTL /\ [][NextTTL]_vars

-----------------------------------------------------------------------------
(* Cache calls step by step: one step per store call, two callers at once,
   and contexts that are cancelled under way *)

\* the stores whose calls fail with the context's error: redisStore hands ctx
\* to the client, bigCacheStore ignores it
ctxDown(p) == IF p.cancelled THEN {i \in Tiers : storeKinds[i] = "redis"} ELSE {}

StepValues == {[kind |-> "struct", name |-> <<1>>], [kind |-> "struct", name |-> <<2>>]}

InitSteps ==
    /\ keyPrefix = ""
    /\ stores = << <<>>, <<>> >>
    /\ ttlList = <<Dur(3), Dur(5)>>
    /\ storeKinds \in {<<"bigcache", "redis">>, <<"redis", "redis">>}
    /\ compressor = [present |-> FALSE, minCompressLength |-> 0, failing |-> FALSE]
    /\ now = Dur(2)
    /\ written = [k \in Keys |-> NotWritten]
    /\ last = NoOp
    /\ procs = NoProcs
    /\ RedisUnused

\* Get: the call starts, now := time.Now()
GetStart ==
    /\ procs["reader"].pc = "idle"
    /\ procs' = [procs EXCEPT !["reader"] = [Idle EXCEPT !.op = "Get", !.pc = "get",
                                                           !.index = 1, !.at = now]]
    /\ UNCHANGED <<redisVars, config, stores, now, written, last>>

\* getBytes: s.Get on the next store and what the loop makes of its result
GetRead(key) ==
    LET g == procs["reader"]
        k == getKey(key).key
        r == IF g.index \in ctxDown(g) THEN [buf |-> <<>>, err |-> ErrCanceled]
             ELSE StoreGet(stores[g.index], g.index, k, {})
        ttl == getTimeFromBytes(r.buf) - g.at
        g1 == [g EXCEPT !.refused = @ \/ r.err = ErrCanceled]
    IN  /\ g.pc = "get"
        /\ procs' = [procs EXCEPT !["reader"] =
               IF isLastFailure(r.err, g.index, Len(stores))
               THEN [g1 EXCEPT !.pc = "done", !.err = r.err]
               ELSE IF found(r.buf) /\ ~isExpired(ttl)
               THEN [g1 EXCEPT !.pc = "found", !.buf = r.buf, !.ttl = ttl]
               ELSE IF g.index = Len(stores)
               THEN [g1 EXCEPT !.pc = "done", !.err = ErrIsNil]
               ELSE [g1 EXCEPT !.index = @ + 1]]
        /\ UNCHANGED <<redisVars, config, stores, now, written, last>>

\* getBytes: the entry found is copied into the first store when it came from
\* another one, the result of that Set is dropped, and the payload is returned
GetServe(key) ==
    LET g == procs["reader"]
        k == getKey(key).key
        e == IF firstIndex \in ctxDown(g) THEN ErrCanceled ELSE NoErr
        d == [data |-> SubSeq(g.buf, timestampByteSize + 1, Len(g.buf)), err |-> NoErr]
        r == IF compressor.present /\ ~isNil(d.data) THEN Decode(compressor, d.data) ELSE d
        g1 == IF promotes(g.index)
              THEN [g EXCEPT !.refused = @ \/ e = ErrCanceled,
                             !.promoted = IF g.cancelled THEN "cancelled" ELSE "live"]
              ELSE g
    IN  /\ g.pc = "found"
        /\ stores' = IF promotes(g.index) /\ e = NoErr
                     THEN [stores EXCEPT ![firstIndex] =
                               StoreSet(stores[firstIndex], firstIndex, k, g.buf, {})]
                     ELSE stores
        /\ procs' = [procs EXCEPT !["reader"] =
               [g1 EXCEPT !.pc = "done", !.data = r.data,
                          !.err = IF promotes(g.index) /\ promotionErr(e) # NoErr
                                  THEN promotionErr(e)
                                  ELSE IF isNil(d.data) THEN ErrIsNil ELSE r.err]]
        /\ UNCHANGED <<redisVars, config, now, written, last>>

\* Set: the call starts, the value is marshalled into the buffer
SetStart(value) ==
    LET m == marshal(value)
    IN  /\ procs["writer"].pc = "idle"
        /\ procs' = [procs EXCEPT !["writer"] =
               IF m.err # NoErr
               THEN [Idle EXCEPT !.op = "Set", !.pc = "done", !.value = value, !.err = m.err]
               ELSE IF compressor.present /\ encodeFailed(compressor, m.data)
               THEN [Idle EXCEPT !.op = "Set", !.pc = "done", !.value = value, !.err = ErrCodec]
               ELSE [Idle EXCEPT !.op = "Set", !.pc = "set", !.index = 1, !.value = value,
                                 !.data = [i \in 1..timestampByteSize |-> 0] \o
                                     (IF compressor.present THEN Encode(compressor, m.data)
                                      ELSE m.data)]]
        /\ UNCHANGED <<redisVars, config, stores, now, written, last>>

\* setBytes: the header of now + ttl is written into the buffer and the next
\* store is set; the first error ends the call
SetWrite(key) ==
    LET w == procs["writer"]
        k == getKey(key).key
        ttl == getTTL(w.index, <<>>)
        buf == writeTimeToBytes(now + ttl, w.data)
        e == IF w.index \in ctxDown(w) THEN ErrCanceled ELSE NoErr
        w1 == [w EXCEPT !.refused = @ \/ e = ErrCanceled, !.data = buf]
    IN  /\ w.pc = "set"
        /\ stores' = IF e = NoErr
                     THEN [stores EXCEPT ![w.index] = StoreSet(stores[w.index], w.index, k, buf, {})]
                     ELSE stores
        /\ procs' = [procs EXCEPT !["writer"] =
               IF setFailed(e) THEN [w1 EXCEPT !.pc = "done", !.err = e]
               ELSE IF w.index = Len(stores) THEN [w1 EXCEPT !.pc = "done"]
               ELSE [w1 EXCEPT !.index = @ + 1]]
        /\ UNCHANGED <<redisVars, config, now, written, last>>

\* Delete: the call starts
DeleteStart ==
    /\ procs["writer"].pc = "idle"
    /\ procs' = [procs EXCEPT !["writer"] = [Idle EXCEPT !.op = "Delete", !.pc = "delete",
                                                           !.index = 1]]
    /\ UNCHANGED <<redisVars, config, stores, now, written, last>>

\* Delete: the next store's Delete; every store is tried, the last error is kept
DeleteStep(key) ==
    LET w == procs["writer"]
        k == getKey(key).key
        e == IF w.index \in ctxDown(w) THEN ErrCanceled
             ELSE StoreDeleteResult(stores[w.index], w.index, k, {})
        w1 == [w EXCEPT !.refused = @ \/ e = ErrCanceled, !.err = deleteErr(e, w.err)]
    IN  /\ w.pc = "delete"
        /\ stores' = IF e = ErrCanceled THEN stores
                     ELSE [stores EXCEPT ![w.index] = StoreDelete(stores[w.index], w.index, k, {})]
        /\ procs' = [procs EXCEPT !["writer"] =
               IF w.index = Len(stores) THEN [w1 EXCEPT !.pc = "done"]
               ELSE [w1 EXCEPT !.index = @ + 1]]
        /\ UNCHANGED <<redisVars, config, now, written, last>>

\* the caller cancels the context of its call while the call is under way
Cancel(p) ==
    /\ procs[p].pc \notin {"idle", "done"}
    /\ ~procs[p].cancelled
    /\ procs' = [procs EXCEPT ![p].cancelled = TRUE]
    /\ UNCHANGED <<redisVars, config, stores, now, written, last>>

\* the call returns to its caller
Finish(p) ==
    /\ procs[p].pc = "done"
    /\ procs' = [procs EXCEPT ![p] = Idle]
    /\ UNCHANGED <<redisVars, config, stores, now, written, last>>

NextSteps ==
    \/ GetStart
    \/ \E key \in Keys : GetRead(key)
    \/ \E key \in Keys : GetServe(key)
    \/ \E value \in StepValues : SetStart(value)
    \/ \E key \in Keys : SetWrite(key)
    \/ DeleteStart
    \/ \E key \in Keys : DeleteStep(key)
    \/ \E p \in Callers : Cancel(p)
    \/ \E p \in Callers : Finish(p)
    \/ Tick

SpecSteps == InitSteps /\ [][NextSteps]_vars

-----------------------------------------------------------------------------
(* Two Cache instances with different key prefixes on one Store *)

\* the prefixes of the two instances: one is the beginning of the other
SharedPrefixes == {"u:", "u:x:"}

\* the caller keys used with both instances
SharedKeys == {"a", "x:a"}

\* the value the instance at hand sets: each instance sets its own
InstanceValue == [kind |-> "struct", name |-> IF keyPrefix = "u:" THEN <<1>> ELSE <<2>>]

\* keyPrefix is the prefix of the instance whose operation runs next
InitShared ==
    /\ keyPrefix \in SharedPrefixes
    /\ stores = << <<>> >>
    /\ storeKinds = <<"redis">>
    /\ ttlList = <<Dur(3)>>
    /\ compressor = [present |-> FALSE, minCompressLength |-> 0, failing |-> FALSE]
    /\ now = Dur(2)
    /\ written = [k \in Keys |-> NotWritten]
    /\ last = NoOp
    /\ procs = NoProcs
    /\ RedisUnused

\* the next operation is one of the other instance, whose prefix is p
Switch(p) ==
    /\ Called
    /\ p # keyPrefix
    /\ keyPrefix' = p
    /\ UNCHANGED <<redisVars, procs, ttlList, storeKinds, compressor, stores, now, written, last>>

NextShared ==
    \/ \E key \in SharedKeys : Set(key, InstanceValue, <<>>, {})
    \/ \E key \in SharedKeys : Get(key, "struct", FALSE, {}, {})
    \/ \E key \in SharedKeys : Delete(key, {})
    \/ \E p \in SharedPrefixes : Switch(p)
    \/ Tick
    \/ Return

SpecShared == InitShared /\ [][NextShared]_vars

-----------------------------------------------------------------------------
(* The cache as time passes: values are set at the start only, and the clock
   goes on *)

\* the operations of Next, with Set and SetBytes called only before the clock
\* has moved
NextExpiry ==
    \/ /\ Ops({{}}, Values, Names, Kinds)
       /\ last'.op \in {"Set", "SetBytes"} => now = Dur(2)
    \/ Env

\* time passes whatever the callers do, and a caller takes each result
SpecExpiry == Init /\ [][NextExpiry]_vars /\ SF_vars(Tick) /\ WF_vars(Return)

-----------------------------------------------------------------------------
(* Properties *)

IsGet == last.op \in {"Get", "GetAndTTL", "GetBytes", "GetBytesAndTTL"}
IsSet == last.op \in {"Set", "SetBytes"}

\* the expiry an entry's header holds, and the bytes after the header
Expiry(data) == getTimeFromBytes(data)
Payload(data) == SubSeq(data, timestampByteSize + 1, Len(data))

\* the TTL a Set with the variadic argument ttls means for store i: the
\* override, else the store's entry of the TTL list (the first entry for a
\* store the list does not reach)
EffectiveTTL(i, ttls) ==
    IF ttls # <<>> THEN ttls[1]
    ELSE IF i <= Len(ttlList) THEN ttlList[i]
    ELSE ttlList[1]

\* the value's encoding has at least one byte
EncodingNonEmpty(v) == v.kind = "struct" \/ v.name # <<>>

\* store entry e is absent, or its expiry lies before t
Lapsed(e, t) == ~e.present \/ Expiry(e.data) < t

\* store entry e is there and its expiry lies after t
Fresh(e, t) == e.present /\ Expiry(e.data) > t

\* the operation that just returned is a Get of k reading the kind of value
\* the last Set of k wrote
ReadsBack(k) ==
    /\ IsGet
    /\ last.key = k
    /\ written[k].ok
    /\ last.value.kind = written[k].value.kind

\* C1: a Get of k that follows a Set(k, V) which returned nil, with V's
\* encoding not empty, no Set or Delete of k and no eviction in between,
\* before the TTL of some store has elapsed, returns nil and V.
C1_RoundTrip ==
    \A k \in Keys :
        ( /\ ReadsBack(k)
          /\ written[k].intact
          /\ EncodingNonEmpty(written[k].value)
          /\ \E i \in Tiers : now - written[k].at < EffectiveTTL(i, written[k].ttls) )
        => /\ last.err = NoErr
           /\ last.out = written[k].value

C1_Witness ==
    /\ ReadsBack("a")
    /\ written["a"].intact
    /\ written["a"].value.kind = "struct"
    /\ written["a"].value.name # <<>>
    /\ Len(stores) = 2
    /\ compressor.present
    /\ now > written["a"].at
    /\ now - written["a"].at < EffectiveTTL(2, written["a"].ttls)
    /\ last.err = NoErr
    /\ last.out = written["a"].value

\* C2: a Get of a key for which every store has no entry or an entry whose
\* expiry has passed returns ErrIsNil; so does every Get issued more than the
\* TTL after the Set, whether or not the stores still hold the bytes.
C2_ExpiryEnforced ==
    /\ ( /\ IsGet
         /\ last.key \in Keys
         /\ \A i \in DOMAIN last.pre : Lapsed(last.pre[i], last.at) )
       => last.err = ErrIsNil
    /\ \A k \in Keys :
        ( /\ IsGet
          /\ last.key = k
          /\ written[k].ok
          /\ \A i \in Tiers : now - written[k].at > EffectiveTTL(i, written[k].ttls) )
        => last.err = ErrIsNil

C2_Witness ==
    /\ IsGet
    /\ last.key = "a"
    /\ written["a"].ok
    /\ written["a"].intact
    /\ EncodingNonEmpty(written["a"].value)
    /\ \A i \in Tiers : now - written["a"].at > EffectiveTTL(i, written["a"].ttls)
    /\ Len(stores) = 2
    /\ \A i \in DOMAIN last.pre : last.pre[i].present
    /\ last.err = ErrIsNil

\* what store i holds for caller key k now, after the operation
Held(i, k) == Entry(stores, i, k)

\* the operation that just returned is a Get of k on a two-store cache that
\* found nothing usable in the first store and an unexpired entry in the second
FallsBack(k) ==
    /\ ReadsBack(k)
    /\ Len(stores) = 2
    /\ Lapsed(last.pre[1], last.at)
    /\ Fresh(last.pre[2], last.at)

\* the Get returned the value of the second store's entry, and the first
\* store now holds an entry with the same payload
ServedAndRepopulated(k) ==
    /\ last.err = NoErr
    /\ last.out = written[k].value
    /\ Held(1, k).present
    /\ Payload(Held(1, k).data) = Payload(last.pre[2].data)

\* C3 as stated: on a two-store cache with an unexpired entry of k in the
\* second store and none (or an expired one) in the first, Get returns the
\* second store's value with a nil error and the first store holds the payload.
C3_TierFallback_AnyPayload ==
    \A k \in Keys : FallsBack(k) => ServedAndRepopulated(k)

\* C3: the same, for a second-store entry whose payload is not empty.
C3_TierFallback ==
    \A k \in Keys :
        (FallsBack(k) /\ Len(Payload(last.pre[2].data)) > 0) => ServedAndRepopulated(k)

C3_Witness ==
    /\ FallsBack("a")
    /\ ~last.pre[1].present
    /\ Len(Payload(last.pre[2].data)) > 0
    /\ last.op = "Get"
    /\ ServedAndRepopulated("a")

\* the Store.Set calls a Get made: the copies into the first store
PromotionCalls ==
    IF IsGet THEN {j \in DOMAIN last.calls : last.calls[j].op = "Set"} ELSE {}

\* C4: when a Get serves k from the second store and the entry's remaining
\* TTL is longer than the first store's configured TTL, the copy written into
\* the first store has a ttl argument and a header expiry of at most the
\* first store's TTL from now.
C4_PromotionTTLClamped ==
    \A j \in PromotionCalls :
        Expiry(last.pre[2].data) - last.at > ttlList[1]
        => /\ last.calls[j].ttl <= ttlList[1]
           /\ Expiry(last.calls[j].value) <= last.at + ttlList[1]

\* C5: every Store call a Cache operation makes for caller key k uses the
\* store key keyPrefix + k, and after a Set that returned nil every store
\* holds the entry under keyPrefix + k and, with a prefix, none under k.
C5_KeyPrefixing ==
    /\ \A j \in DOMAIN last.calls :
          last.calls[j].op # "Close" => last.calls[j].key = keyPrefix \o last.key
    /\ (IsSet /\ last.err = NoErr)
       => \A i \in Tiers :
            /\ (keyPrefix \o last.key) \in DOMAIN stores[i]
            /\ keyPrefix # "" => last.key \notin DOMAIN stores[i]

C5_Witness ==
    /\ last.op = "Set"
    /\ last.err = NoErr
    /\ last.key = "a"
    /\ keyPrefix = "p:"
    /\ Len(stores) = 2
    /\ \A i \in Tiers : "p:a" \in DOMAIN stores[i] /\ "a" \notin DOMAIN stores[i]
    /\ \A j \in DOMAIN last.calls : last.calls[j].key = "p:a"

\* the operation that just returned was called with the empty key
EmptyKeyCall == last.op \notin {"none", "Close"} /\ last.key = ""

\* C6 as stated: every Cache operation called with the empty key returns
\* ErrKeyIsNil and calls no store, whatever the value.
C6_EmptyKey_AnyValue ==
    EmptyKeyCall => last.err = ErrKeyIsNil /\ last.calls = <<>>

\* C6: every Cache operation called with the empty key calls no store; it
\* returns ErrKeyIsNil, except a Set of a value that cannot be marshaled,
\* which returns the marshal error.
C6_EmptyKey ==
    EmptyKeyCall
    => /\ last.calls = <<>>
       /\ last.err = IF last.op = "Set" /\ last.value.kind = "unsupported"
                     THEN ErrMarshal
                     ELSE ErrKeyIsNil

C6_Witness ==
    /\ EmptyKeyCall
    /\ last.op = "Set"
    /\ last.value.kind = "struct"
    /\ keyPrefix = "p:"
    /\ \E i \in Tiers : stores[i] # <<>>
    /\ last.err = ErrKeyIsNil
    /\ last.calls = <<>>

\* C7: after a Set that returned nil at time T, Store.Set was called once on
\* every store in order with that store's TTL (the override if given), and
\* every store holds an entry whose header is T plus its own TTL and whose
\* payload is the same in all stores.
C7_SetWritesEveryTier ==
    (IsSet /\ last.err = NoErr)
    => /\ Len(last.calls) = Len(stores)
       /\ \A i \in Tiers :
            /\ last.calls[i].op = "Set"
            /\ last.calls[i].tier = i
            /\ last.calls[i].ttl = EffectiveTTL(i, last.ttls)
            /\ Held(i, last.key).present
            /\ Len(Held(i, last.key).data) >= timestampByteSize
            /\ Expiry(Held(i, last.key).data) = last.at + EffectiveTTL(i, last.ttls)
            /\ Payload(Held(i, last.key).data) = Payload(Held(1, last.key).data)

C7_Witness ==
    /\ IsSet
    /\ last.err = NoErr
    /\ last.ttls = <<>>
    /\ Len(stores) = 2
    /\ Len(last.calls) = 2
    /\ last.calls[1].ttl < last.calls[2].ttl
    /\ Expiry(Held(1, last.key).data) = last.at + ttlList[1]
    /\ Expiry(Held(2, last.key).data) = last.at + ttlList[2]
    /\ Payload(Held(1, last.key).data) # <<>>
    /\ Payload(Held(2, last.key).data) = Payload(Held(1, last.key).data)

\* the Store calls of the given method made by the operation that just returned
CallsOf(op) == {j \in DOMAIN last.calls : last.calls[j].op = op}

\* the operation that just returned was called with a key of Keys
KeyedCall(ops) == last.op \in ops /\ last.key \in Keys

\* C8: a Set returns nil only if Store.Set succeeded on every store; when a
\* store's Set fails, its error is what Set returns, it is the last call
\* made, the stores after it are as they were and the stores before it hold
\* the entry just written.
C8_SetAbortsOnFailure ==
    KeyedCall({"Set", "SetBytes"})
    => /\ last.err = NoErr
          => \A i \in Tiers :
                \E j \in CallsOf("Set") :
                    last.calls[j].tier = i /\ last.calls[j].err = NoErr
       /\ \A j \in CallsOf("Set") :
            last.calls[j].err # NoErr
            => /\ last.err = last.calls[j].err
               /\ j = Len(last.calls)
               /\ \A i \in Tiers :
                    /\ i > last.calls[j].tier => Held(i, last.key) = last.pre[i]
                    /\ i < last.calls[j].tier
                       => /\ Held(i, last.key).present
                          /\ Held(i, last.key).data = last.calls[i].value

C8_Witness ==
    /\ KeyedCall({"Set"})
    /\ Len(stores) = 2
    /\ Len(last.calls) = 2
    /\ last.calls[1].err = NoErr
    /\ last.calls[2].err = StoreErr(2)
    /\ last.err = StoreErr(2)
    /\ last.pre[1].present
    /\ Held(1, last.key).data # last.pre[1].data
    /\ Held(1, last.key).data = last.calls[1].value
    /\ Held(2, last.key) = last.pre[2]

\* the errors of failing stores
StoreErrs == {StoreErr(i) : i \in Tiers}

\* C9: a Get never returns the failure of a store that is not the last one
\* and goes on to the next store; the error of the last store's Get is
\* returned as it is; so a store failure returned by Get is the last store's.
C9_GetSurfacesLastTierFailure ==
    KeyedCall({"Get", "GetAndTTL", "GetBytes", "GetBytesAndTTL"})
    => /\ \A j \in CallsOf("Get") :
            (last.calls[j].tier < Len(stores) /\ last.calls[j].err \in StoreErrs)
            => /\ last.err # last.calls[j].err
               /\ \E n \in CallsOf("Get") : last.calls[n].tier = last.calls[j].tier + 1
       /\ \A j \in CallsOf("Get") :
            (last.calls[j].tier = Len(stores) /\ last.calls[j].err # NoErr)
            => last.err = last.calls[j].err
       /\ last.err \in StoreErrs
          => \E j \in CallsOf("Get") :
                /\ last.calls[j].tier = Len(stores)
                /\ last.calls[j].err = last.err

C9_Witness ==
    /\ KeyedCall({"Get"})
    /\ Len(stores) = 2
    /\ last.pre[1].present
    /\ last.calls[1].op = "Get"
    /\ last.calls[1].err = StoreErr(1)
    /\ last.calls[2].op = "Get"
    /\ last.calls[2].tier = 2
    /\ last.calls[2].err = NoErr
    /\ last.err = NoErr

\* C10: a Delete calls Store.Delete on every store in order, whatever fails,
\* and returns the error of the last store that failed, nil if none did.
C10_DeleteSweepsAllTiers ==
    KeyedCall({"Delete"})
    => /\ Len(last.calls) = Len(stores)
       /\ \A i \in Tiers : last.calls[i].op = "Delete" /\ last.calls[i].tier = i
       /\ LET failed == {i \in Tiers : last.calls[i].err # NoErr}
          IN  last.err = IF failed = {} THEN NoErr
                         ELSE last.calls[CHOOSE i \in failed : \A n \in failed : n <= i].err

C10_Witness ==
    /\ KeyedCall({"Delete"})
    /\ Len(stores) = 2
    /\ Len(last.calls) = 2
    /\ last.calls[1].err = StoreErr(1)
    /\ last.calls[2].err = NoErr
    /\ last.pre[2].present
    /\ ~Held(2, last.key).present
    /\ last.err = StoreErr(1)

\* a direct read of caller key k on store i reports not-found
DirectReadMisses(i, k) == StoreGet(stores[i], i, keyPrefix \o k, {}).err = ErrIsNil

\* C11: once a Delete of k has returned nil, and until a Set of k, every
\* store reports not-found for the prefixed key and a Get of k returns
\* ErrIsNil.
C11_DeleteRemovesEverywhere ==
    \A k \in Keys :
        written[k].gone
        => /\ \A i \in Tiers : DirectReadMisses(i, k)
           /\ (IsGet /\ last.key = k) => last.err = ErrIsNil

C11_Witness ==
    /\ written["a"].gone
    /\ Len(stores) = 2
    /\ storeKinds[1] = "bigcache"
    /\ last.op = "Get"
    /\ last.key = "a"
    /\ \A i \in Tiers : DirectReadMisses(i, "a")
    /\ last.err = ErrIsNil

\* C12: Close calls Store.Close on the stores in order, stops at the first
\* one that fails and returns its error; it returns nil only when every
\* store's Close was called and succeeded.
C12_CloseStopsAtFirstFailure ==
    last.op = "Close"
    => /\ Len(last.calls) <= Len(stores)
       /\ \A j \in DOMAIN last.calls :
            /\ last.calls[j].op = "Close"
            /\ last.calls[j].tier = j
            /\ last.calls[j].err # NoErr
               => j = Len(last.calls) /\ last.err = last.calls[j].err
       /\ last.err = NoErr
          => /\ Len(last.calls) = Len(stores)
             /\ \A j \in DOMAIN last.calls : last.calls[j].err = NoErr
       /\ last.err # NoErr => last.err = last.calls[Len(last.calls)].err

C12_Witness ==
    /\ last.op = "Close"
    /\ Len(stores) = 2
    /\ Len(last.calls) = 1
    /\ last.calls[1].err = StoreErr(1)
    /\ last.err = StoreErr(1)

\* C13: Encode of a payload no longer than the minimum length gives the
\* CompressNone tag and the payload as it is; Encode of a longer payload gives
\* the Compressed tag and the output of the compression function; the result
\* is one byte longer than what follows the tag.
C13_CompressionThreshold ==
    last.op = "Encode"
    => LET min == compressor.minCompressLength
       IN  /\ Len(last.data) <= min => last.encoded = <<CompressNone>> \o last.data
           /\ Len(last.data) > min => last.encoded = <<Compressed>> \o codecEncode(last.data)
           /\ Len(last.encoded) =
                1 + (IF Len(last.data) <= min THEN Len(last.data)
                     ELSE Len(codecEncode(last.data)))

C13_Witness ==
    /\ last.op = "Encode"
    /\ compressor.minCompressLength > 0
    /\ Len(last.data) = compressor.minCompressLength
    /\ last.encoded = <<CompressNone>> \o last.data

\* C14: Decode of what Encode made of a payload returns the payload and no
\* error, whatever its length; Decode of no bytes returns no bytes and no
\* error.
C14_CodecRoundTrip ==
    /\ last.op = "Decode" => last.err = NoErr /\ last.decoded = last.data
    /\ (last.op = "DecodeInput" /\ last.encoded = <<>>)
       => last.err = NoErr /\ last.decoded = <<>>

C14_Witness ==
    /\ last.op = "Decode"
    /\ Len(last.data) > compressor.minCompressLength
    /\ last.encoded[1] = Compressed
    /\ Tail(last.encoded) # last.data
    /\ last.err = NoErr
    /\ last.decoded = last.data

\* C15: the TTL a Set uses for store i is the override when one is passed,
\* the same for every store, and otherwise entry i of the TTL list when the
\* list has one: it is the ttl argument of Store.Set and, added to the time
\* of the Set, the header written.
C15_EffectiveTTL ==
    IsSet
    => \A j \in CallsOf("Set") :
        LET i == last.calls[j].tier
            ttl == last.calls[j].ttl
        IN  /\ last.ttls # <<>> => ttl = last.ttls[1]
            /\ (last.ttls = <<>> /\ i <= Len(ttlList)) => ttl = ttlList[i]
            /\ Expiry(last.calls[j].value) = last.at + ttl

C15_Witness ==
    /\ IsSet
    /\ last.ttls = <<Dur(2)>>
    /\ Len(ttlList) = 2
    /\ Len(last.calls) = 2
    /\ \A j \in {1, 2} : last.calls[j].ttl = Dur(2) /\ last.calls[j].ttl # ttlList[j]

\* C16: a Set called with a TTL of zero writes every store with the store's
\* configured TTL, as a Set called without a TTL does, and the entry is read
\* back until that TTL has elapsed.
C16_ZeroTTLMeansDefault ==
    /\ (IsSet /\ last.ttls = <<0>> /\ last.err = NoErr)
       => \A i \in Tiers :
            /\ last.calls[i].ttl = EffectiveTTL(i, <<>>)
            /\ Expiry(Held(i, last.key).data) = last.at + EffectiveTTL(i, <<>>)
    /\ \A k \in Keys :
        ( /\ ReadsBack(k)
          /\ written[k].intact
          /\ written[k].ttls = <<0>>
          /\ EncodingNonEmpty(written[k].value)
          /\ \E i \in Tiers : now - written[k].at < EffectiveTTL(i, <<>>) )
        => last.err = NoErr /\ last.out = written[k].value

\* the store whose entry the Get that just returned was served from: the
\* last one it read
ServedFrom ==
    LET gets == CallsOf("Get")
    IN  last.calls[CHOOSE j \in gets : \A n \in gets : n <= j].tier

\* C17: a GetAndTTL / GetBytesAndTTL that succeeds on the entry a Set stored
\* in a store with a TTL t above zero returns a remaining TTL r with
\* 0 < r <= t.
C17_TTLReadBack ==
    \A k \in Keys :
        ( /\ last.op \in {"GetAndTTL", "GetBytesAndTTL"}
          /\ last.key = k
          /\ last.err = NoErr
          /\ written[k].ok )
        => LET t == EffectiveTTL(ServedFrom, written[k].ttls)
           IN  (t > 0 /\ Expiry(last.pre[ServedFrom].data) = written[k].at + t)
               => 0 < last.ttl /\ last.ttl <= t

\* C18: on a bigcache store and on a redis store, Get of a key that was
\* never set or was deleted returns ErrIsNil; Get after a Set of v, while the
\* store still keeps the entry, returns v and nil; Get after a Delete that
\* returned nil returns ErrIsNil.
C18_StoreContract ==
    \A k \in Keys :
        (last.op = "StoreGet" /\ last.key = k)
        => /\ ~written[k].ok => last.err = ErrIsNil
           /\ (written[k].ok /\ written[k].intact)
              => last.err = NoErr /\ last.out = written[k].value
           /\ written[k].gone => last.err = ErrIsNil

C18_Witness ==
    /\ last.op = "StoreGet"
    /\ last.key = "a"
    /\ storeKinds = <<"redis">>
    /\ written["a"].ok
    /\ written["a"].intact
    /\ written["a"].value.name # <<>>
    /\ last.err = NoErr
    /\ last.out = written["a"].value

\* C19: Store.Delete of a key the store does not hold returns no error, so
\* a Delete of a key that no store holds returns nil and leaves every store
\* as it was.
C19_DeleteIdempotent ==
    last.op = "Delete"
    => /\ \A j \in CallsOf("Delete") :
            ~last.pre[last.calls[j].tier].present => last.calls[j].err = NoErr
       /\ (last.key \in Keys /\ \A i \in Tiers : ~last.pre[i].present)
          => /\ last.err = NoErr
             /\ \A i \in Tiers : Held(i, last.key) = last.pre[i]

\* C20: a Lock or LockWithDone of a key returns no error, and returns true
\* exactly when no lock of the key returned as taken is still running, not
\* deleted and not past its TTL: while a lock runs every other attempt
\* returns false, and of the attempts on a free key the first and only the
\* first returns true.
C20_LockMutualExclusion ==
    (last.op \in {"Lock", "LockWithDone"} /\ last.key \in LockKeys)
    => /\ last.err = NoErr
       /\ last.ok <=> ~last.held

C20_Witness ==
    /\ last.op = "LockWithDone"
    /\ last.key = "k"
    /\ redisCache.prefix = "prefix:"
    /\ last.held
    /\ ~last.ok
    /\ last.err = NoErr
    /\ "k" \in dones
    /\ Live(redis, "prefix:k", now)

\* a lock call on a lock key
IsLock == last.op \in {"Lock", "LockWithDone"} /\ last.key \in LockKeys

\* C21: a Lock or LockWithDone of a key succeeds when the holder's done
\* function has ended the last lock of the key, and when the TTL of the last
\* lock taken has elapsed without a release; calling the done function of a
\* failed LockWithDone changes no redis key, so a lock that is held stays.
C21_LockNeverBlocksForever ==
    /\ (IsLock /\ last.pre.released) => (last.ok /\ last.err = NoErr)
    /\ (IsLock /\ last.pre.held /\ last.at >= last.pre.until)
       => (last.ok /\ last.err = NoErr)
    /\ last.op = "Noop"
       => /\ redis = last.before
          /\ last.held => Live(redis, redisCache.prefix \o last.key, now)

\* a LockWithDone that succeeds right after the holder's done function
C21_Witness ==
    /\ last.op = "LockWithDone"
    /\ last.key = "k"
    /\ last.pre.released
    /\ last.ok
    /\ last.at < Dur(4)

\* a Lock that succeeds because the TTL of the lock taken before has elapsed
C21_WitnessExpired ==
    /\ last.op = "Lock"
    /\ last.key = "k"
    /\ last.pre.held
    /\ last.at >= last.pre.until
    /\ last.ok

\* the noop of a failed LockWithDone called while the lock is held
C21_WitnessNoop ==
    /\ last.op = "Noop"
    /\ last.key = "k"
    /\ last.held
    /\ Live(redis, redisCache.prefix \o "k", now)

\* an IncWith of a key that was absent or a counter of IncWith calls only
IsInc == last.op = "IncWith" /\ last.key \in LockKeys /\ last.pre.kind # "other"

\* C22: starting from an absent key, every IncWith returns nil and the sum of
\* the increments applied to the counter so far, its own included, and that
\* sum is the value stored under the prefixed key.
C22_IncWithRunningTotal ==
    IsInc => /\ last.err = NoErr
             /\ last.n = tracked[last.key].sum
             /\ RedisGet(redis, redisCache.prefix \o last.key, now).value = IntVal(last.n)
             /\ last.n = (IF last.pre.kind = "counter" /\ last.at < last.pre.until
                          THEN last.pre.sum ELSE 0) + last.value

\* the third increment of a counter, a negative one
C22_Witness ==
    /\ IsInc
    /\ last.pre.kind = "counter"
    /\ last.at < last.pre.until
    /\ last.pre.sum = 3
    /\ last.value < 0
    /\ last.n = 1

\* what redis holds under the prefixed key of caller key k
Stored(k) == redis[redisCache.prefix \o k]

\* a Get of a key that IncWith made a counter
IsCounterGet == last.op = "Get" /\ last.key \in LockKeys /\ last.pre.kind = "counter"

\* C23: the expiry of a counter is the time of the IncWith that created it
\* plus the TTL of that call; the IncWith calls that follow leave it where it
\* is, so that a Get finds the counter before that time and redis.Nil from
\* that time on.
C23_FirstWriteTTL ==
    /\ \A k \in LockKeys :
          tracked[k].kind = "counter"
          => /\ redisCache.prefix \o k \in DOMAIN redis
             /\ Stored(k).expireAt = tracked[k].until
    /\ (IsInc /\ last.pre.kind = "counter" /\ last.at < last.pre.until)
       => /\ Stored(last.key).expireAt = last.before[redisCache.prefix \o last.key].expireAt
          /\ tracked[last.key].until = last.pre.until
    /\ IsCounterGet
       => IF last.at < last.pre.until
          THEN last.err = NoErr /\ last.out = IntVal(last.pre.sum)
          ELSE last.err = redisNil

\* a later IncWith, with another TTL than the one that created the counter
C23_Witness ==
    /\ IsInc
    /\ last.pre.kind = "counter"
    /\ last.at < last.pre.until
    /\ last.at > Dur(2)
    /\ last.ttls = <<Dur(2)>>
    /\ last.pre.until = Dur(2) + Dur(4)
    /\ Stored(last.key).expireAt = Dur(2) + Dur(4)

\* the counter is gone at its first expiry although increments followed
C23_WitnessGone ==
    /\ IsCounterGet
    /\ last.at >= last.pre.until
    /\ last.pre.sum > 1
    /\ last.err = redisNil

\* a GetAndDel of a key
IsGetAndDel == last.op = "GetAndDel" /\ last.key \in LockKeys

\* C24: GetAndDel returns the value redis held under the prefixed key, and
\* redis.Nil when it held none; afterwards redis holds no such key, and until
\* the key is written again a Get and another GetAndDel report redis.Nil: of
\* two GetAndDel calls with no write between them only the first returns the
\* value.
C24_GetAndDelAtomic ==
    /\ IsGetAndDel
       => /\ IF Live(last.before, redisCache.prefix \o last.key, last.at)
             THEN /\ last.err = NoErr
                  /\ last.out = last.before[redisCache.prefix \o last.key].value
             ELSE last.err = redisNil
          /\ RedisGet(redis, redisCache.prefix \o last.key, now).err = redisNil
          /\ last.pre.taken => last.err = redisNil
    /\ (last.op = "Get" /\ last.key \in LockKeys /\ last.pre.taken)
       => last.err = redisNil

\* a GetAndDel that returns the bytes a Set stored
C24_Witness ==
    /\ IsGetAndDel
    /\ last.pre.kind = "other"
    /\ last.err = NoErr
    /\ last.out = BytesVal(<<1>>)
    /\ redisCache.prefix \o last.key \notin DOMAIN redis

\* the second of two GetAndDel calls
C24_WitnessSecond ==
    /\ IsGetAndDel
    /\ last.pre.taken
    /\ last.err = redisNil

\* C25: every key redis holds was written with an expiry.
C25_EveryKeyExpires ==
    \A k \in DOMAIN redis : redis[k].expireAt # NoExpiry

\* the entries the stores hold for caller key k
EntriesOf(k) == [i \in Tiers |-> Entry(stores, i, k)]

\* C26: a Get reads the stores one after the other in index order; when the
\* first store holds an unexpired entry of the key, the Get makes one store
\* call, the Get on the first store, and leaves every store as it was.
C26_StopsAtFirstFreshTier ==
    KeyedCall({"Get", "GetAndTTL", "GetBytes", "GetBytesAndTTL"})
    => /\ \A j \in CallsOf("Get") : last.calls[j].tier = j
       /\ Fresh(last.pre[1], last.at)
          => /\ last.calls = <<Call("Get", 1, keyPrefix \o last.key,
                                    last.pre[1].data, 0, NoErr)>>
             /\ EntriesOf(last.key) = last.pre

\* both stores hold an unexpired entry and only the first is read
C26_Witness ==
    /\ KeyedCall({"Get"})
    /\ Len(stores) = 2
    /\ Fresh(last.pre[1], last.at)
    /\ Fresh(last.pre[2], last.at)
    /\ Len(last.calls) = 1
    /\ last.err = NoErr

\* the Get that just returned was served by store i
Hit(i) ==
    /\ KeyedCall({"Get", "GetAndTTL", "GetBytes", "GetBytesAndTTL"})
    /\ last.err = NoErr
    /\ ServedFrom = i

\* the time the entry that served the Get had left
Remaining == Expiry(last.pre[ServedFrom].data) - last.at

C27_WitnessPromoted ==
    /\ Hit(2)
    /\ 0 < Remaining
    /\ PromotionCalls # {}

\* the Get that just returned found an unexpired entry in the second store
\* and its Store.Set into the first store failed
PromotionFailed ==
    /\ KeyedCall({"Get", "GetAndTTL", "GetBytes", "GetBytesAndTTL"})
    /\ Len(stores) = 2
    /\ Fresh(last.pre[2], last.at)
    /\ \E j \in PromotionCalls : last.calls[j].err # NoErr

\* the Get returned nil and the value the second store's entry holds
ServedSecond ==
    /\ last.err = NoErr
    /\ last.out.name = Payload(last.pre[2].data)

\* C28 as stated: when the second store yields an unexpired entry and the
\* Store.Set into the first store fails, Get returns the second store's value
\* and nil.
C28_PromotionFailureSwallowed_AnyPayload ==
    PromotionFailed => ServedSecond

\* C28: the same for an entry whose payload is not empty; and whatever the
\* payload, the error of the failed Store.Set is not what Get returns and
\* the first store is left as it was.
C28_PromotionFailureSwallowed ==
    PromotionFailed
    => /\ Len(Payload(last.pre[2].data)) > 0 => ServedSecond
       /\ last.err \notin StoreErrs
       /\ Entry(stores, 1, last.key) = last.pre[1]

C28_Witness ==
    /\ PromotionFailed
    /\ last.op = "Get"
    /\ ~last.pre[1].present
    /\ Len(Payload(last.pre[2].data)) > 0
    /\ ServedSecond
    /\ ~Entry(stores, 1, last.key).present

\* the Get that just returned read store i
ReadTier(i) == \E j \in CallsOf("Get") : last.calls[j].tier = i

\* C29: an entry whose expiry is not after the time of the Get (its remaining
\* TTL is zero or less) is a miss at its store: the Get is not served by that
\* store and reads the next one. Stated for entries written with a TTL above
\* zero.
C29_ExpiryBoundary ==
    KeyedCall({"Get", "GetAndTTL", "GetBytes", "GetBytesAndTTL"})
    => \A i \in Tiers :
          ( /\ ReadTier(i)
            /\ last.pre[i].present
            /\ found(last.pre[i].data)
            /\ Expiry(last.pre[i].data) <= last.at
            /\ Expiry(last.pre[i].data) > written[last.key].at )
          => /\ ~(last.err = NoErr /\ ServedFrom = i)
             /\ i < Len(stores) => ReadTier(i + 1)

\* the first store holds an entry whose header is all zero
ZeroHeaderFirst ==
    /\ KeyedCall({"Get", "GetAndTTL", "GetBytes", "GetBytesAndTTL"})
    /\ last.pre[1].present
    /\ found(last.pre[1].data)
    /\ SubSeq(last.pre[1].data, 1, timestampByteSize) = [i \in 1..timestampByteSize |-> 0]

\* C30: a Get that reads an entry whose 8-byte header is all zero takes it
\* as an entry without expiry and returns it: nil, and the payload after the
\* header.
C30_ZeroHeaderNeverExpires ==
    ZeroHeaderFirst
    => /\ last.err = NoErr
       /\ ServedFrom = 1
       /\ last.out.name = unmarshal(Payload(last.pre[1].data), last.value.kind).value.name

C32_NoPromotionAfterCancel ==
    procs["reader"].promoted # "cancelled"

\* C33: when the context is cancelled while a store call is in flight and
\* that store call returns the cancellation error, the Get, Set or Delete
\* returns an error, not success.
C33_CancellationPropagates ==
    \A p \in Callers :
        (procs[p].pc = "done" /\ procs[p].refused) => procs[p].err # NoErr

\* C36: a Get runs at the same time as a Set that replaces V1 by V2 on a
\* two-store cache; once both have returned, the first store does not hold
\* an unexpired V1 while the second store holds V2.
C36_NoStaleAfterSet ==
    LET w == procs["writer"]
        first == Held(1, "a")
        second == Held(2, "a")
    IN  (/\ w.op = "Set" /\ w.pc = "done" /\ w.err = NoErr
         /\ procs["reader"].pc \in {"idle", "done"})
        => ~(/\ Fresh(first, now)
             /\ Payload(first.data) # marshal(w.value).data
             /\ second.present
             /\ Payload(second.data) = marshal(w.value).data)

\* C37: a Get runs at the same time as a Delete that returns nil on a
\* two-store cache; once both have returned, no store holds the key.
C37_NoResurrection ==
    LET w == procs["writer"]
    IN  (/\ w.op = "Delete" /\ w.pc = "done" /\ w.err = NoErr
         /\ procs["reader"].pc \in {"idle", "done"})
        => \A i \in Tiers : ~Held(i, "a").present

\* the operation that just returned is one of the instance with prefix
\* keyPrefix on one of the shared caller keys
IsSharedOp == last.op \in {"Get", "Set", "Delete"} /\ last.key \in SharedKeys

\* the store key of the operation is also the store key of some caller key
\* of the other instance
Collides ==
    \E q \in SharedPrefixes \ {keyPrefix}, k \in SharedKeys : q \o k = keyPrefix \o last.key

\* the entry the operation found under its store key was written by the
\* instance itself
FoundOwn == last.pre[1].present => Payload(last.pre[1].data) = marshal(InstanceValue).data

\* C34 (as stated): two Cache instances with different key prefixes on the
\* same Store never interfere: for all caller keys k1, k2 the entry written
\* by one instance under k1 is never the one an operation of the other
\* instance on k2 returns, overwrites or deletes.
C34_PrefixesNeverInterfere ==
    IsSharedOp => FoundOwn

\* C34 (amended): every store call of an operation on caller key k is made
\* on the store key prefix + k, so an operation of one instance on k2 meets
\* the entry the other instance wrote under k1 only when the two store keys
\* are the same string; when no caller key of the other instance gives the
\* same store key, the entry returned, overwritten or deleted is the
\* instance's own.
C34_DistinctStoreKeysNeverInterfere ==
    IsSharedOp
    => /\ \A j \in DOMAIN last.calls : last.calls[j].key = keyPrefix \o last.key
       /\ ~Collides => FoundOwn

\* the instance "u:" reads back its own value under "a" while the store
\* holds what the instance "u:x:" wrote under "a"
C34_Witness ==
    /\ IsSharedOp
    /\ last.op = "Get"
    /\ keyPrefix = "u:"
    /\ last.key = "a"
    /\ last.err = NoErr
    /\ last.out.name = <<1>>
    /\ "u:x:a" \in DOMAIN stores[1]
    /\ Payload(stores[1]["u:x:a"]) = jsonMarshal([kind |-> "struct", name |-> <<2>>])

\* C38: the done function of a successful LockWithDone releases only the lock
\* that call took: when the lock has expired and another caller holds the
\* key by a lock of its own, calling the done function leaves that lock in
\* place.
C38_DoneReleasesOnlyOwnLock ==
    (last.op = "Done" /\ last.held /\ ~last.pre.done)
    => Live(redis, redisCache.prefix \o last.key, now)

\* the operation that just returned is a GetBytes of k after a SetBytes of k
\* returned nil, with the entry still in the first store and not after its
\* expiry there
ReadsBytesBack(k) ==
    /\ last.op \in {"GetBytes", "GetBytesAndTTL"}
    /\ last.key = k
    /\ written[k].ok
    /\ written[k].intact
    /\ written[k].value.kind = "bytes"
    /\ last.at <= written[k].at + EffectiveTTL(1, written[k].ttls)

\* C39 (as stated): on a cache without compressor, SetBytes(k, empty) that
\* returned nil followed by GetBytes(k) before expiry returns the empty
\* payload with a nil error: a header-only entry is a hit.
C39_EmptyPayloadRoundTrip ==
    \A k \in Keys :
        (ReadsBytesBack(k) /\ ~compressor.present /\ written[k].value.name = <<>>)
        => (last.err = NoErr /\ last.out.name = <<>>)

\* C39 (amended): on a cache without compressor, SetBytes(k, empty) that
\* returned nil followed by GetBytes(k) before expiry returns ErrIsNil: the
\* stored entry is the header only and is reported as a miss.  A payload of
\* at least one byte is returned as it was set, and so is the empty payload
\* on a cache with a compressor, whose entry holds the compression flag.
C39_EmptyPayloadIsNil ==
    \A k \in Keys :
        ReadsBytesBack(k)
        => IF ~compressor.present /\ written[k].value.name = <<>>
           THEN last.err = ErrIsNil /\ last.out = NoValue
           ELSE last.err = NoErr /\ last.out.name = written[k].value.name

C39_Witness ==
    /\ ReadsBytesBack("a")
    /\ ~compressor.present
    /\ written["a"].value.name = <<>>
    /\ Len(Held(1, "a").data) = timestampByteSize
    /\ last.at < written["a"].at + EffectiveTTL(1, written["a"].ttls)
    /\ last.err = ErrIsNil

\* the empty payload set and read back on a cache with a compressor
C39_WitnessCompressed ==
    /\ ReadsBytesBack("a")
    /\ compressor.present
    /\ written["a"].value.name = <<>>
    /\ last.err = NoErr
    /\ last.out.name = <<>>

\* the bytes a Set / SetBytes hands to setBytes
SetPayload == IF last.op = "SetBytes" THEN last.value.name ELSE marshal(last.value).data

\* the Set that just returned was given a value that cannot be marshalled
MarshalFails == last.op = "Set" /\ last.value.kind = "unsupported"

\* the Set that just returned reached the compressor with a payload the
\* failing codec is called for
EncodeFails ==
    /\ ~MarshalFails
    /\ last.key # ""
    /\ compressor.present
    /\ compressor.failing
    /\ Len(SetPayload) > compressor.minCompressLength

\* C40: a Set / SetBytes that fails before any tier write changes nothing:
\* when marshalling the value or the compressor's Encode fails, the call
\* returns that error, no Store.Set was invoked and every store holds for
\* the key what it held before.
C40_FailedSetChangesNothing ==
    IsSet
    => /\ MarshalFails => last.err = ErrMarshal
       /\ EncodeFails => last.err = ErrCodec
       /\ last.err \in {ErrMarshal, ErrCodec} => (MarshalFails \/ EncodeFails)
       /\ (MarshalFails \/ EncodeFails)
          => /\ last.calls = <<>>
             /\ last.key \in Keys => EntriesOf(last.key) = last.pre

\* a Set whose Encode failed on a key that every store holds
C40_Witness ==
    /\ IsSet
    /\ EncodeFails
    /\ last.err = ErrCodec
    /\ last.key = "a"
    /\ last.calls = <<>>
    /\ \A i \in Tiers : Held(i, "a").present

\* a Set whose marshal failed on a key that every store holds
C40_WitnessMarshal ==
    /\ IsSet
    /\ MarshalFails
    /\ last.err = ErrMarshal
    /\ last.key = "a"
    /\ \A i \in Tiers : Held(i, "a").present

\* the latest of the expiry times the last Set of k gave to the stores
LatestExpiry(k) ==
    LET ttl(i) == EffectiveTTL(i, written[k].ttls)
    IN  written[k].at + ttl(CHOOSE i \in Tiers : \A j \in Tiers : ttl(j) <= ttl(i))

\* a Get never returns the value of a Set after the latest expiry that Set
\* gave to a store, and the copy a Get writes into the first store carries
\* the expiry of the entry it was copied from
NotStale ==
    /\ \A k \in Keys :
          (IsGet /\ last.key = k /\ written[k].ok /\ last.at > LatestExpiry(k))
          => last.err = ErrIsNil
    /\ \A j \in PromotionCalls :
          /\ Expiry(last.calls[j].value) <= Expiry(last.pre[2].data)
          /\ Held(1, last.key).present
          /\ Expiry(Held(1, last.key).data) <= Expiry(last.pre[2].data)

\* C35: no permanently stale reads: a value written by a Set is never
\* returned by a Get after the latest expiry that Set assigned to the tiers;
\* a promotion never extends the lifetime (the promoted copy's expiry is not
\* later than that of the entry it was copied from); and with no further Set
\* every Get of the key eventually returns ErrIsNil.
C35_NoPermanentlyStaleReads ==
    /\ []NotStale
    /\ <>[](\A k \in Keys : (IsGet /\ last.key = k) => last.err = ErrIsNil)

\* a Get after every expiry of a value that was set and then copied into the
\* first store by an earlier Get
C35_Witness ==
    /\ IsGet
    /\ last.key = "a"
    /\ written["a"].ok
    /\ last.at > LatestExpiry("a")
    /\ last.pre[1].present
    /\ Len(stores) = 2
    /\ last.pre[2].present
    /\ Expiry(last.pre[1].data) = Expiry(last.pre[2].data)
    /\ last.err = ErrIsNil

====
